---- MODULE Spec2Model ----
(***************************************************************************)
(* Verification model of the Shelegia & Motta (2021) model family:        *)
(* BaseModel, BargainingPowerModel, UnobservableModel, AcquisitionModel   *)
(* (src/Shelegia_Motta_2021/Models.py).                                    *)
(*                                                                         *)
(* Numbers.  The program computes with Python floats.  The model computes *)
(* with exact fixed-point rationals: the integer n stands for the number  *)
(* n / One, One == 2 * Scale * Scale.  Constructor arguments are multiples*)
(* of 1 / Scale; for those every product and quotient the source forms    *)
(* (x / 2, 3 / 2 * x, x * (2 - beta), x * (2.5 - 3 * beta), ...) is an     *)
(* exact multiple of 1 / One, so no rounding happens in the model.        *)
(* Query points (A, F) are arbitrary multiples of 1 / One, so they can lie*)
(* on a threshold and strictly between two thresholds.                    *)
(***************************************************************************)
EXTENDS Integers, FiniteSets, Sequences, TLC

(***************************************************************************)
(* Bounds of the model.                                                    *)
(***************************************************************************)
Scale == 4            \* constructor arguments are multiples of 1 / Scale
MaxU == 4             \* u            ranges over (-2 .. MaxU) / Scale
MaxB == 1             \* B            ranges over ( 0 .. MaxB) / Scale
MaxSmallDelta == 4    \* small_delta  ranges over ( 1 .. MaxSmallDelta) / Scale
MaxDelta == 4         \* delta        ranges over ( 1 .. MaxDelta) / Scale
MaxK == 2             \* K            ranges over (-2 .. MaxK) / Scale
MaxOffset == 1        \* query points lie within MaxOffset / One of a threshold
MaxThreads == 2       \* threads calling get_optimal_choice on one object

(***************************************************************************)
(* Fixed-point arithmetic.                                                 *)
(***************************************************************************)
One == 2 * Scale * Scale
Num(n) == n * One                       \* the literal n
Grid(n) == n * 2 * Scale                \* the number n / Scale
Mul(x, y) == (x * y) \div One           \* x * y
Div(x, y) == (x * One) \div y           \* x / y
Abs(x) == IF x < 0 THEN -x ELSE x       \* abs(x)

\* TOLERANCE = 10 ** (-10), kept as the two factors 10^5 * 10^5 of its
\* reciprocal so that no intermediate value leaves the 32-bit range.
TOLERANCE_ROOT == 100000

\* x < TOLERANCE   <=>   x / One < 1 / (TOLERANCE_ROOT * TOLERANCE_ROOT)
\*                 <=>   x * TOLERANCE_ROOT * TOLERANCE_ROOT < One
BelowTolerance(x) ==
    \/ x <= 0
    \/ x * TOLERANCE_ROOT <= (One - 1) \div TOLERANCE_ROOT

(***************************************************************************)
(* IModel: the final dictionaries with the outcome symbols.  The two       *)
(* non-ASCII symbols of INCUMBENT_CHOICES (the copyright sign and the      *)
(* empty-set sign) are spelled out; only their being distinct matters.     *)
(***************************************************************************)
ENTRANT_CHOICES ==
    [k \in {"complement", "substitute", "indifferent"} |->
        CASE k = "complement" -> "C"
          [] k = "substitute" -> "S"
          [] k = "indifferent" -> "I"]

INCUMBENT_CHOICES ==
    [k \in {"copy", "refrain"} |->
        CASE k = "copy" -> "copy-sign"
          [] k = "refrain" -> "empty-set-sign"]

DEVELOPMENT_OUTCOME ==
    [k \in {"success", "failure"} |->
        CASE k = "success" -> "Y"
          [] k = "failure" -> "N"]

ACQUISITION_OUTCOME ==
    [k \in {"merged", "apart"} |->
        CASE k = "merged" -> "M"
          [] k = "apart" -> "E"]

(***************************************************************************)
(* Dictionaries.                                                           *)
(***************************************************************************)
EmptyDict == [k \in {} |-> 0]

\* dict.update({k: v})
update(d, k, v) == [x \in (DOMAIN d) \cup {k} |-> IF x = k THEN v ELSE d[x]]

\* dict.update(other)
updateAll(d, other) ==
    [x \in (DOMAIN d) \cup (DOMAIN other) |->
        IF x \in DOMAIN other THEN other[x] ELSE d[x]]

Values(d) == {d[k] : k \in DOMAIN d}

Classes == {"BaseModel", "BargainingPowerModel", "UnobservableModel", "AcquisitionModel"}

\* classes deriving from BargainingPowerModel (the class itself included)
BargainingClasses == {"BargainingPowerModel", "UnobservableModel", "AcquisitionModel"}

PayoffConfigs == {"basic", "I(C)", "E(P)", "I(C)E(P)", "E(C)", "I(C)E(C)"}
PayoffKeys == {"pi(I)", "pi(E)", "CS", "W"}

VARIABLES
    pc,       \* "new": no object yet; "constructed"; "raised": the constructor raised
    cls,      \* class of the object under construction / constructed
    args,     \* the constructor's arguments
    self,     \* the object's attributes (see NewObject)
    raised,   \* message of the AssertionError the constructor raised, "" if none
    call,     \* the method call whose return value the caller holds, NoCall if none
    result,   \* the dictionary returned by the last get_optimal_choice call
    view,     \* the table the caller holds a reference to after a getter call
    threads,  \* per thread: position in get_optimal_choice, its arguments and local names
    frames    \* per frame: the dictionary the local name result of get_optimal_choice denotes

vars == <<pc, cls, args, self, raised, call, result, view, threads, frames>>

(***************************************************************************)
(* The object.  attrs is the set of attributes assigned so far; an         *)
(* attribute outside attrs does not exist yet (its field holds a filler).  *)
(* computed lists the _calculate_* methods that have been entered.         *)
(***************************************************************************)
NewObject ==
    [attrs |-> {}, computed |-> {},
     u |-> 0, B |-> 0, small_delta |-> 0, delta |-> 0, K |-> 0, beta |-> 0,
     copying_fixed_costs |-> EmptyDict, assets |-> EmptyDict, payoffs |-> EmptyDict]

NoCall == [op |-> "none", A |-> 0, F |-> 0]


(***************************************************************************)
(* BaseModel: payoffs and thresholds.                                      *)
(***************************************************************************)
\* mutation: in I(C)E(P) the consumers keep u only
BaseModel_calculate_payoffs_no_surplus(o) ==
    [cfg \in PayoffConfigs |->
        CASE cfg = "basic" ->
                [k \in PayoffKeys |->
                    CASE k = "pi(I)" -> o.u + Div(o.small_delta, Num(2))
                      [] k = "pi(E)" -> Div(o.small_delta, Num(2))
                      [] k = "CS" -> 0
                      [] k = "W" -> o.u + o.small_delta]
          [] cfg = "I(C)" ->
                [k \in PayoffKeys |->
                    CASE k = "pi(I)" -> o.u + o.small_delta
                      [] k = "pi(E)" -> 0
                      [] k = "CS" -> 0
                      [] k = "W" -> o.u + o.small_delta]
          [] cfg = "E(P)" ->
                [k \in PayoffKeys |->
                    CASE k = "pi(I)" -> 0
                      [] k = "pi(E)" -> o.delta + o.small_delta
                      [] k = "CS" -> o.u
                      [] k = "W" -> o.u + o.delta + o.small_delta]
          [] cfg = "I(C)E(P)" ->
                [k \in PayoffKeys |->
                    CASE k = "pi(I)" -> 0
                      [] k = "pi(E)" -> o.delta
                      [] k = "CS" -> o.u
                      [] k = "W" -> o.u + o.delta + o.small_delta]
          [] cfg = "E(C)" ->
                [k \in PayoffKeys |->
                    CASE k = "pi(I)" -> o.u + o.small_delta
                      [] k = "pi(E)" -> o.small_delta
                      [] k = "CS" -> 0
                      [] k = "W" -> o.u + Mul(Num(2), o.small_delta)]
          [] cfg = "I(C)E(C)" ->
                [k \in PayoffKeys |->
                    CASE k = "pi(I)" -> o.u + Mul(Div(Num(3), Num(2)), o.small_delta)
                      [] k = "pi(E)" -> Div(o.small_delta, Num(2))
                      [] k = "CS" -> 0
                      [] k = "W" -> o.u + Mul(Num(2), o.small_delta)]]

BaseModel_calculate_payoffs(o) ==
    [cfg \in PayoffConfigs |->
        CASE cfg = "basic" ->
                [k \in PayoffKeys |->
                    CASE k = "pi(I)" -> o.u + Div(o.small_delta, Num(2))
                      [] k = "pi(E)" -> Div(o.small_delta, Num(2))
                      [] k = "CS" -> 0
                      [] k = "W" -> o.u + o.small_delta]
          [] cfg = "I(C)" ->
                [k \in PayoffKeys |->
                    CASE k = "pi(I)" -> o.u + o.small_delta
                      [] k = "pi(E)" -> 0
                      [] k = "CS" -> 0
                      [] k = "W" -> o.u + o.small_delta]
          [] cfg = "E(P)" ->
                [k \in PayoffKeys |->
                    CASE k = "pi(I)" -> 0
                      [] k = "pi(E)" -> o.delta + o.small_delta
                      [] k = "CS" -> o.u
                      [] k = "W" -> o.u + o.delta + o.small_delta]
          [] cfg = "I(C)E(P)" ->
                [k \in PayoffKeys |->
                    CASE k = "pi(I)" -> 0
                      [] k = "pi(E)" -> o.delta
                      [] k = "CS" -> o.u + o.small_delta
                      [] k = "W" -> o.u + o.delta + o.small_delta]
          [] cfg = "E(C)" ->
                [k \in PayoffKeys |->
                    CASE k = "pi(I)" -> o.u + o.small_delta
                      [] k = "pi(E)" -> o.small_delta
                      [] k = "CS" -> 0
                      [] k = "W" -> o.u + Mul(Num(2), o.small_delta)]
          [] cfg = "I(C)E(C)" ->
                [k \in PayoffKeys |->
                    CASE k = "pi(I)" -> o.u + Mul(Div(Num(3), Num(2)), o.small_delta)
                      [] k = "pi(E)" -> Div(o.small_delta, Num(2))
                      [] k = "CS" -> 0
                      [] k = "W" -> o.u + Mul(Num(2), o.small_delta)]]

\* mutation: F(YN)c takes the value of F(YY)c
BaseModel_calculate_copying_fixed_costs_values_swapped(o) ==
    [k \in {"F(YY)s", "F(YN)s", "F(YY)c", "F(YN)c"} |->
        CASE k = "F(YY)s" -> Div(o.small_delta, Num(2))
          [] k = "F(YN)s" -> o.u + Div(Mul(o.small_delta, Num(3)), Num(2))
          [] k = "F(YY)c" -> o.small_delta
          [] k = "F(YN)c" -> o.small_delta]

BaseModel_calculate_copying_fixed_costs_values(o) ==
    [k \in {"F(YY)s", "F(YN)s", "F(YY)c", "F(YN)c"} |->
        CASE k = "F(YY)s" -> Div(o.small_delta, Num(2))
          [] k = "F(YN)s" -> o.u + Div(Mul(o.small_delta, Num(3)), Num(2))
          [] k = "F(YY)c" -> o.small_delta
          [] k = "F(YN)c" -> Div(o.small_delta, Num(2))]

\* mutation: the values of A_c and A-c are exchanged
BaseModel_calculate_asset_values_exchanged(o) ==
    [k \in {"A_s", "A_c", "A-s", "A-c"} |->
        CASE k = "A_s" -> o.B - (o.delta + Mul(Div(Num(3), Num(2)), o.small_delta) - o.K)
          [] k = "A_c" -> o.B - (Mul(Div(Num(1), Num(2)), o.small_delta) - o.K)
          [] k = "A-s" -> o.B - (o.delta - o.K)
          [] k = "A-c" -> o.B - (Mul(Div(Num(3), Num(2)), o.small_delta) - o.K)]

BaseModel_calculate_asset_values(o) ==
    [k \in {"A_s", "A_c", "A-s", "A-c"} |->
        CASE k = "A_s" -> o.B - (o.delta + Mul(Div(Num(3), Num(2)), o.small_delta) - o.K)
          [] k = "A_c" -> o.B - (Mul(Div(Num(3), Num(2)), o.small_delta) - o.K)
          [] k = "A-s" -> o.B - (o.delta - o.K)
          [] k = "A-c" -> o.B - (Mul(Div(Num(1), Num(2)), o.small_delta) - o.K)]

(***************************************************************************)
(* BargainingPowerModel: payoffs and thresholds.                           *)
(***************************************************************************)
\* mutation: the entrant's share of the two complements lacks the factor 2
BargainingPowerModel_calculate_payoffs_unbalanced(o) ==
    LET payoffs == BaseModel_calculate_payoffs(o)
    IN  [payoffs EXCEPT
            !["basic"]["pi(I)"] = o.u + Mul(o.small_delta, o.beta),
            !["basic"]["pi(E)"] = Mul(o.small_delta, Num(1) - o.beta),
            !["E(C)"]["pi(I)"] = o.u + Mul(Mul(Num(2), o.small_delta), o.beta),
            !["E(C)"]["pi(E)"] = Mul(o.small_delta, Num(1) - o.beta),
            !["I(C)E(C)"]["pi(I)"] = o.u + Mul(o.small_delta, Num(1) + o.beta),
            !["I(C)E(C)"]["pi(E)"] = Mul(o.small_delta, Num(1) - o.beta)]

\* mutation: the split by beta is also applied to the row I(C)
BargainingPowerModel_calculate_payoffs_extra_row(o) ==
    LET payoffs == BaseModel_calculate_payoffs(o)
    IN  [payoffs EXCEPT
            !["basic"]["pi(I)"] = o.u + Mul(o.small_delta, o.beta),
            !["basic"]["pi(E)"] = Mul(o.small_delta, Num(1) - o.beta),
            !["I(C)"]["pi(I)"] = o.u + Mul(o.small_delta, o.beta),
            !["I(C)"]["pi(E)"] = Mul(o.small_delta, Num(1) - o.beta),
            !["E(C)"]["pi(I)"] = o.u + Mul(Mul(Num(2), o.small_delta), o.beta),
            !["E(C)"]["pi(E)"] = Mul(Mul(Num(2), o.small_delta), Num(1) - o.beta),
            !["I(C)E(C)"]["pi(I)"] = o.u + Mul(o.small_delta, Num(1) + o.beta),
            !["I(C)E(C)"]["pi(E)"] = Mul(o.small_delta, Num(1) - o.beta)]

BargainingPowerModel_calculate_payoffs(o) ==
    LET payoffs == BaseModel_calculate_payoffs(o)
    IN  [payoffs EXCEPT
            !["basic"]["pi(I)"] = o.u + Mul(o.small_delta, o.beta),
            !["basic"]["pi(E)"] = Mul(o.small_delta, Num(1) - o.beta),
            !["E(C)"]["pi(I)"] = o.u + Mul(Mul(Num(2), o.small_delta), o.beta),
            !["E(C)"]["pi(E)"] = Mul(Mul(Num(2), o.small_delta), Num(1) - o.beta),
            !["I(C)E(C)"]["pi(I)"] = o.u + Mul(o.small_delta, Num(1) + o.beta),
            !["I(C)E(C)"]["pi(E)"] = Mul(o.small_delta, Num(1) - o.beta)]

\* mutation: F(YY)c lacks the factor 2
BargainingPowerModel_calculate_copying_fixed_costs_values_halved(o) ==
    [k \in {"F(YY)s", "F(YN)s", "F(YY)c", "F(YN)c"} |->
        CASE k = "F(YY)s" -> Mul(o.small_delta, Num(1) - o.beta)
          [] k = "F(YN)s" -> o.u + Mul(o.small_delta, Num(2) - o.beta)
          [] k = "F(YY)c" -> Mul(o.small_delta, Num(1) - o.beta)
          [] k = "F(YN)c" -> Mul(o.small_delta, Num(2) - Mul(Num(3), o.beta))]

\* mutation: F(YN)c as the table in the getter's docstring gives it, small_delta * (2 - beta)
BargainingPowerModel_calculate_copying_fixed_costs_values_documented(o) ==
    [k \in {"F(YY)s", "F(YN)s", "F(YY)c", "F(YN)c"} |->
        CASE k = "F(YY)s" -> Mul(o.small_delta, Num(1) - o.beta)
          [] k = "F(YN)s" -> o.u + Mul(o.small_delta, Num(2) - o.beta)
          [] k = "F(YY)c" -> Mul(Mul(Num(2), o.small_delta), Num(1) - o.beta)
          [] k = "F(YN)c" -> Mul(o.small_delta, Num(2) - o.beta)]

BargainingPowerModel_calculate_copying_fixed_costs_values(o) ==
    [k \in {"F(YY)s", "F(YN)s", "F(YY)c", "F(YN)c"} |->
        CASE k = "F(YY)s" -> Mul(o.small_delta, Num(1) - o.beta)
          [] k = "F(YN)s" -> o.u + Mul(o.small_delta, Num(2) - o.beta)
          [] k = "F(YY)c" -> Mul(Mul(Num(2), o.small_delta), Num(1) - o.beta)
          [] k = "F(YN)c" -> Mul(o.small_delta, Num(2) - Mul(Num(3), o.beta))]

BargainingPowerModel_calculate_asset_values(o) ==
    [k \in {"A_s", "A_c", "A-s", "A-c"} |->
        CASE k = "A_s" -> o.K + o.B - o.delta - Mul(o.small_delta, Num(2) - o.beta)
          [] k = "A_c" -> o.K + o.B - Mul(Mul(Num(3), o.small_delta), Num(1) - o.beta)
          [] k = "A-s" -> o.K + o.B - o.delta
          [] k = "A-c" -> o.K + o.B - Mul(o.small_delta, Num(1) - o.beta)]

(***************************************************************************)
(* AcquisitionModel: the two additional thresholds and their assertion.    *)
(***************************************************************************)
\* mutation: F(ACQ)c as the table in the getter's docstring gives it, with K / 2 added
AcquisitionModel_calculate_copying_fixed_costs_values_documented(o) ==
    updateAll(BargainingPowerModel_calculate_copying_fixed_costs_values(o),
        [k \in {"F(ACQ)s", "F(ACQ)c"} |->
            CASE k = "F(ACQ)s" -> Div(o.u + o.delta - o.K, Num(2))
                                    + Mul(o.small_delta, Num(2) - o.beta)
              [] k = "F(ACQ)c" -> Div(o.K, Num(2))
                                    + Mul(o.small_delta, Div(Num(5), Num(2)) - Mul(Num(3), o.beta))])

AcquisitionModel_calculate_copying_fixed_costs_values(o) ==
    updateAll(BargainingPowerModel_calculate_copying_fixed_costs_values(o),
        [k \in {"F(ACQ)s", "F(ACQ)c"} |->
            CASE k = "F(ACQ)s" -> Div(o.u + o.delta - o.K, Num(2))
                                    + Mul(o.small_delta, Num(2) - o.beta)
              [] k = "F(ACQ)c" -> Mul(o.small_delta, Div(Num(5), Num(2)) - Mul(Num(3), o.beta))
                                    - Div(o.K, Num(2))])

\* mutation: F(ACQ)c is compared with F(ACQ)s instead of F(YY)c
AcquisitionModel_thresholds_assertion_wrong_key(values) ==
    \/ BelowTolerance(Abs(values["F(ACQ)c"] - values["F(ACQ)s"]))
    \/ values["F(ACQ)c"] < values["F(ACQ)s"]

\* assert (abs(F(ACQ)c - F(YY)c) < TOLERANCE or F(ACQ)c < F(YY)c)
AcquisitionModel_thresholds_assertion(values) ==
    \/ BelowTolerance(Abs(values["F(ACQ)c"] - values["F(YY)c"]))
    \/ values["F(ACQ)c"] < values["F(YY)c"]

(***************************************************************************)
(* Method resolution: the override of the object's class is the one called.*)
(* A _calculate_* method yields [raised, value]: the message of the failed *)
(* assertion ("" if none) and the returned dictionary.                     *)
(***************************************************************************)
calculate_copying_fixed_costs_values(c, o) ==
    CASE c = "BaseModel" ->
            [raised |-> "", value |-> BaseModel_calculate_copying_fixed_costs_values(o)]
      [] c \in {"BargainingPowerModel", "UnobservableModel"} ->
            [raised |-> "", value |-> BargainingPowerModel_calculate_copying_fixed_costs_values(o)]
      [] c = "AcquisitionModel" ->
            LET values == AcquisitionModel_calculate_copying_fixed_costs_values(o)
            IN  IF AcquisitionModel_thresholds_assertion(values)
                THEN [raised |-> "", value |-> values]
                ELSE [raised |-> "F(ACQ)c has to be smaller or equal than F(YY)c",
                      value |-> EmptyDict]

calculate_asset_values(c, o) ==
    IF c = "BaseModel"
    THEN BaseModel_calculate_asset_values(o)
    ELSE BargainingPowerModel_calculate_asset_values(o)

calculate_payoffs(c, o) ==
    IF c = "BaseModel"
    THEN BaseModel_calculate_payoffs(o)
    ELSE BargainingPowerModel_calculate_payoffs(o)


(***************************************************************************)
(* Constructors.  Each __init__ yields [self, raised]: the object with the *)
(* attributes assigned up to the point reached, and the message of the     *)
(* failed assertion ("" when the constructor returned normally).           *)
(***************************************************************************)
setattrs(o, names) == [o EXCEPT !.attrs = @ \cup names]

\* IModel.__init__: the three final dictionaries of outcome symbols
IModel_init(o) ==
    setattrs(o, {"ENTRANT_CHOICES", "INCUMBENT_CHOICES", "DEVELOPMENT_OUTCOME"})

\* mutation: the upper bound of (A1b) is not strict
A1b_closed(small_delta, delta) ==
    /\ Div(small_delta, Num(2)) < delta
    /\ delta <= Div(Mul(Num(3), small_delta), Num(2))

\* (A1b)  small_delta / 2 < delta < 3 * small_delta / 2
A1b(small_delta, delta) ==
    /\ Div(small_delta, Num(2)) < delta
    /\ delta < Div(Mul(Num(3), small_delta), Num(2))

\* (A2)  K < small_delta / 2
A2(small_delta, K) == K < Div(small_delta, Num(2))

BaseModel_init(c, o, u, B, small_delta, delta, K) ==
    LET o0 == IModel_init(o)
    IN  IF ~A1b(small_delta, delta)
        THEN [self |-> o0, raised |-> "(A1b) not satisfied."]
        ELSE IF ~A2(small_delta, K)
        THEN [self |-> o0, raised |-> "(A2) not satisfied."]
        ELSE
        LET o1 == setattrs([o0 EXCEPT !.u = u, !.B = B, !.small_delta = small_delta,
                                      !.delta = delta, !.K = K],
                           {"_u", "_B", "_small_delta", "_delta", "_K"})
            costs == calculate_copying_fixed_costs_values(c, o1)
            o2 == [o1 EXCEPT !.computed = @ \cup {"copying_fixed_costs"}]
        IN  IF costs.raised # ""
            THEN [self |-> o2, raised |-> costs.raised]
            ELSE
            LET o3 == setattrs([o2 EXCEPT !.copying_fixed_costs = costs.value],
                               {"_copying_fixed_costs"})
                o4 == setattrs([o3 EXCEPT !.assets = calculate_asset_values(c, o3),
                                          !.computed = @ \cup {"assets"}],
                               {"_assets"})
                o5 == setattrs([o4 EXCEPT !.payoffs = calculate_payoffs(c, o4),
                                          !.computed = @ \cup {"payoffs"}],
                               {"_payoffs"})
            IN  [self |-> o5, raised |-> ""]

\* mutation: the endpoints 0 and 1 pass
ValidBeta_closed(beta) == Num(0) <= beta /\ beta <= Num(1)

\* assert 0 < beta < 1
ValidBeta(beta) == Num(0) < beta /\ beta < Num(1)

BargainingPowerModel_init(c, o, u, B, small_delta, delta, K, beta) ==
    IF ~ValidBeta(beta)
    THEN [self |-> o,
          raised |-> "Invalid bargaining power beta (has to be between 0 and 1)."]
    ELSE BaseModel_init(c, setattrs([o EXCEPT !.beta = beta], {"_beta"}),
                        u, B, small_delta, delta, K)

UnobservableModel_init(c, o, u, B, small_delta, delta, K, beta) ==
    BargainingPowerModel_init(c, o, u, B, small_delta, delta, K, beta)

\* mutation: the comparison as the constructor's docstring words it, delta bigger than u
NotTooDrastic_reversed(u, delta) == delta > u

\* assert delta < u
NotTooDrastic(u, delta) == delta < u

AcquisitionModel_init(c, o, u, B, small_delta, delta, K, beta) ==
    IF ~NotTooDrastic(u, delta)
    THEN [self |-> o,
          raised |-> "Delta has to be smaller than u, meaning the innovation of the entrant is not too drastic."]
    ELSE
    LET r == BargainingPowerModel_init(c, o, u, B, small_delta, delta, K, beta)
    IN  IF r.raised # ""
        THEN r
        ELSE [self |-> setattrs(r.self, {"ACQUISITION_OUTCOME"}), raised |-> ""]

(***************************************************************************)
(* get_optimal_choice.                                                     *)
(***************************************************************************)
\* mutation: the lower boundary F == F(YN)c is excluded
BaseModel_kill_zone_condition_open(o, A, F) ==
    /\ o.copying_fixed_costs["F(YN)c"] < F
    /\ F <= o.copying_fixed_costs["F(YN)s"]
    /\ A < o.assets["A-s"]

\* line 219: F(YN)c <= F <= F(YN)s and A < A-s
BaseModel_kill_zone_condition(o, A, F) ==
    /\ o.copying_fixed_costs["F(YN)c"] <= F
    /\ F <= o.copying_fixed_costs["F(YN)s"]
    /\ A < o.assets["A-s"]

\* mutation: the test of the assets is missing
BaseModel_indifferent_condition_any_assets(o, A, F) ==
    F <= o.copying_fixed_costs["F(YN)c"]

\* line 223: F <= F(YN)c and A < A-s
BaseModel_indifferent_condition(o, A, F) ==
    /\ F <= o.copying_fixed_costs["F(YN)c"]
    /\ A < o.assets["A-s"]

\* mutation: the boundary F == F(YY)s is excluded
BaseModel_copy_condition_open(o, F) == F < o.copying_fixed_costs["F(YY)s"]

\* line 230: F <= F(YY)s
BaseModel_copy_condition(o, F) == F <= o.copying_fixed_costs["F(YY)s"]

BaseModel_get_optimal_choice(o, A, F) ==
    LET result0 == [k \in {"entrant", "incumbent", "development"} |-> ""]
    IN  IF BaseModel_kill_zone_condition(o, A, F)
        THEN update(update(update(result0,
                 "entrant", ENTRANT_CHOICES["complement"]),
                 "incumbent", INCUMBENT_CHOICES["refrain"]),
                 "development", DEVELOPMENT_OUTCOME["success"])
        ELSE IF BaseModel_indifferent_condition(o, A, F)
        THEN update(update(update(result0,
                 "entrant", ENTRANT_CHOICES["indifferent"]),
                 "incumbent", INCUMBENT_CHOICES["copy"]),
                 "development", DEVELOPMENT_OUTCOME["failure"])
        ELSE LET result1 == update(update(result0,
                                "entrant", ENTRANT_CHOICES["substitute"]),
                                "development", DEVELOPMENT_OUTCOME["success"])
             IN  IF BaseModel_copy_condition(o, F)
                 THEN update(result1, "incumbent", INCUMBENT_CHOICES["copy"])
                 ELSE update(result1, "incumbent", INCUMBENT_CHOICES["refrain"])

\* mutation: the replacement dictionary lacks the development outcome
UnobservableModel_get_optimal_choice_partial(o, A, F) ==
    LET result0 == BaseModel_get_optimal_choice(o, A, F)
    IN  IF result0["entrant"] = ENTRANT_CHOICES["complement"]
        THEN [k \in {"entrant", "incumbent"} |->
                CASE k = "entrant" -> ENTRANT_CHOICES["substitute"]
                  [] k = "incumbent" -> INCUMBENT_CHOICES["copy"]]
        ELSE result0

\* mutation: the replacement keeps the successful development of the kill zone
UnobservableModel_get_optimal_choice_success(o, A, F) ==
    LET result0 == BaseModel_get_optimal_choice(o, A, F)
    IN  IF result0["entrant"] = ENTRANT_CHOICES["complement"]
        THEN [k \in {"entrant", "incumbent", "development"} |->
                CASE k = "entrant" -> ENTRANT_CHOICES["substitute"]
                  [] k = "incumbent" -> INCUMBENT_CHOICES["copy"]
                  [] k = "development" -> DEVELOPMENT_OUTCOME["success"]]
        ELSE result0

UnobservableModel_get_optimal_choice(o, A, F) ==
    LET result0 == BaseModel_get_optimal_choice(o, A, F)
    IN  IF result0["entrant"] = ENTRANT_CHOICES["complement"]
        THEN [k \in {"entrant", "incumbent", "development"} |->
                CASE k = "entrant" -> ENTRANT_CHOICES["substitute"]
                  [] k = "incumbent" -> INCUMBENT_CHOICES["copy"]
                  [] k = "development" -> DEVELOPMENT_OUTCOME["failure"]]
        ELSE result0

\* mutation: the upper boundary F == F(ACQ)s is excluded
AcquisitionModel_kill_zone_condition_open(o, A, F) ==
    /\ o.copying_fixed_costs["F(ACQ)c"] <= F
    /\ F < o.copying_fixed_costs["F(ACQ)s"]
    /\ A < o.assets["A-s"]

\* line 1249: F(ACQ)c <= F <= F(ACQ)s and A < A-s
AcquisitionModel_kill_zone_condition(o, A, F) ==
    /\ o.copying_fixed_costs["F(ACQ)c"] <= F
    /\ F <= o.copying_fixed_costs["F(ACQ)s"]
    /\ A < o.assets["A-s"]

\* line 1254: F < F(ACQ)c and A < A-s
AcquisitionModel_area_one_condition(o, A, F) ==
    /\ F < o.copying_fixed_costs["F(ACQ)c"]
    /\ A < o.assets["A-s"]

\* mutation: the incumbent's copy/refrain flip sits at F(YY)s
AcquisitionModel_copy_condition_substitute(o, F) == F <= o.copying_fixed_costs["F(YY)s"]

\* line 1268: F <= F(YY)c
AcquisitionModel_copy_condition(o, F) == F <= o.copying_fixed_costs["F(YY)c"]

\* mutation: the complement is also chosen when delta == small_delta
AcquisitionModel_entrant_choice_area_1_weak(o) ==
    IF o.delta <= o.small_delta THEN "complement" ELSE "substitute"

\* lines 1256-1259: substitute, unless delta < small_delta
AcquisitionModel_entrant_choice_area_1(o) ==
    IF o.delta < o.small_delta THEN "complement" ELSE "substitute"

AcquisitionModel_get_optimal_choice(o, A, F) ==
    LET result0 == [k \in {"entrant", "incumbent", "development", "acquisition"} |-> ""]
    IN  IF AcquisitionModel_kill_zone_condition(o, A, F)
        THEN update(update(update(update(result0,
                 "entrant", ENTRANT_CHOICES["complement"]),
                 "incumbent", INCUMBENT_CHOICES["refrain"]),
                 "development", DEVELOPMENT_OUTCOME["success"]),
                 "acquisition", ACQUISITION_OUTCOME["apart"])
        ELSE IF AcquisitionModel_area_one_condition(o, A, F)
        THEN LET entrant_choice_area_1 == AcquisitionModel_entrant_choice_area_1(o)
             IN  update(update(update(update(result0,
                     "entrant", ENTRANT_CHOICES[entrant_choice_area_1]),
                     "incumbent", INCUMBENT_CHOICES["copy"]),
                     "development", DEVELOPMENT_OUTCOME["success"]),
                     "acquisition", ACQUISITION_OUTCOME["merged"])
        ELSE LET result1 == update(update(update(result0,
                                "entrant", ENTRANT_CHOICES["substitute"]),
                                "development", DEVELOPMENT_OUTCOME["success"]),
                                "acquisition", ACQUISITION_OUTCOME["merged"])
             IN  IF AcquisitionModel_copy_condition(o, F)
                 THEN update(result1, "incumbent", INCUMBENT_CHOICES["copy"])
                 ELSE update(result1, "incumbent", INCUMBENT_CHOICES["refrain"])

\* the get_optimal_choice the object's class resolves to
get_optimal_choice(c, o, A, F) ==
    CASE c \in {"BaseModel", "BargainingPowerModel"} -> BaseModel_get_optimal_choice(o, A, F)
      [] c = "UnobservableModel" -> UnobservableModel_get_optimal_choice(o, A, F)
      [] c = "AcquisitionModel" -> AcquisitionModel_get_optimal_choice(o, A, F)

\* mutation: __call__ is bound to the get_optimal_choice of the class that defines it
BaseModel_call_static(c, o, A, F) == BaseModel_get_optimal_choice(o, A, F)

\* BaseModel.__call__: return self.get_optimal_choice(A=A, F=F); it is inherited unchanged
BaseModel_call(c, o, A, F) == get_optimal_choice(c, o, A, F)

(***************************************************************************)
(* Inputs.                                                                 *)
(***************************************************************************)
ArgU == {Grid(n) : n \in (-2) .. MaxU}
ArgB == {Grid(n) : n \in 0 .. MaxB}
ArgSmallDelta == {Grid(n) : n \in 1 .. MaxSmallDelta}
ArgDelta == {Grid(n) : n \in 1 .. MaxDelta}
ArgK == {Grid(n) : n \in (-2) .. MaxK}
ArgBeta == {Grid(n) : n \in (-1) .. (Scale + 1)}

Offsets == (-MaxOffset) .. MaxOffset

\* query points: on, just below and just above every threshold of the object
PointsA(o) == {o.assets[k] + d : k \in DOMAIN o.assets, d \in Offsets}
PointsF(o) == {o.copying_fixed_costs[k] + d : k \in DOMAIN o.copying_fixed_costs, d \in Offsets}

(***************************************************************************)
(* The state machine.                                                      *)
(***************************************************************************)
\* threads that share one model object
Threads == 1 .. MaxThreads

\* a thread outside get_optimal_choice
IdleThread == [pc |-> "idle", A |-> 0, F |-> 0, entrant_choice_area_1 |-> "", ret |-> EmptyDict]

Init ==
    /\ pc = "new"
    /\ cls = ""
    /\ args = [u |-> 0, B |-> 0, small_delta |-> 0, delta |-> 0, K |-> 0, beta |-> 0]
    /\ self = NewObject
    /\ raised = ""
    /\ call = NoCall
    /\ result = EmptyDict
    /\ view = "none"
    /\ threads = [t \in Threads |-> IdleThread]
    /\ frames = [t \in Threads |-> EmptyDict]

\* the caller's statement  obj = c(...)  with outcome r
Constructed(c, a, r) ==
    /\ pc' = IF r.raised = "" THEN "constructed" ELSE "raised"
    /\ cls' = c
    /\ args' = a
    /\ self' = r.self
    /\ raised' = r.raised
    /\ UNCHANGED <<call, result, view, threads, frames>>

\* BaseModel(u, B, small_delta, delta, K); args.beta is a filler, the class has no beta
NewBaseModel ==
    /\ pc = "new"
    /\ \E u \in ArgU, B \in ArgB, small_delta \in ArgSmallDelta, delta \in ArgDelta, K \in ArgK :
        Constructed("BaseModel",
            [u |-> u, B |-> B, small_delta |-> small_delta, delta |-> delta, K |-> K, beta |-> 0],
            BaseModel_init("BaseModel", NewObject, u, B, small_delta, delta, K))

NewBargainingPowerModel ==
    /\ pc = "new"
    /\ \E u \in ArgU, B \in ArgB, small_delta \in ArgSmallDelta, delta \in ArgDelta, K \in ArgK,
       beta \in ArgBeta :
        Constructed("BargainingPowerModel",
            [u |-> u, B |-> B, small_delta |-> small_delta, delta |-> delta, K |-> K, beta |-> beta],
            BargainingPowerModel_init("BargainingPowerModel", NewObject,
                                      u, B, small_delta, delta, K, beta))

NewUnobservableModel ==
    /\ pc = "new"
    /\ \E u \in ArgU, B \in ArgB, small_delta \in ArgSmallDelta, delta \in ArgDelta, K \in ArgK,
       beta \in ArgBeta :
        Constructed("UnobservableModel",
            [u |-> u, B |-> B, small_delta |-> small_delta, delta |-> delta, K |-> K, beta |-> beta],
            UnobservableModel_init("UnobservableModel", NewObject,
                                   u, B, small_delta, delta, K, beta))

NewAcquisitionModel ==
    /\ pc = "new"
    /\ \E u \in ArgU, B \in ArgB, small_delta \in ArgSmallDelta, delta \in ArgDelta, K \in ArgK,
       beta \in ArgBeta :
        Constructed("AcquisitionModel",
            [u |-> u, B |-> B, small_delta |-> small_delta, delta |-> delta, K |-> K, beta |-> beta],
            AcquisitionModel_init("AcquisitionModel", NewObject,
                                  u, B, small_delta, delta, K, beta))

\* choice = model.get_optimal_choice(A, F)
GetOptimalChoice ==
    /\ pc = "constructed"
    /\ call = NoCall
    /\ \E A \in PointsA(self), F \in PointsF(self) :
        /\ call' = [op |-> "get_optimal_choice", A |-> A, F |-> F]
        /\ result' = get_optimal_choice(cls, self, A, F)
    /\ view' = "none"
    /\ UNCHANGED <<pc, cls, args, self, raised, threads, frames>>

\* choice = model(A, F)
Call ==
    /\ pc = "constructed"
    /\ call = NoCall
    /\ \E A \in PointsA(self), F \in PointsF(self) :
        /\ call' = [op |-> "__call__", A |-> A, F |-> F]
        /\ result' = BaseModel_call(cls, self, A, F)
    /\ view' = "none"
    /\ UNCHANGED <<pc, cls, args, self, raised, threads, frames>>

\* a getter returns the object's own dictionary: the caller holds a reference to it
Getter(op, table) ==
    /\ pc = "constructed"
    /\ call = NoCall
    /\ call' = [op |-> op, A |-> 0, F |-> 0]
    /\ result' = EmptyDict
    /\ view' = table
    /\ UNCHANGED <<pc, cls, args, self, raised, threads, frames>>

\* the caller is done with what the last call returned (the local variable
\* holding it goes out of scope); the object is ready for the next call
Release ==
    /\ pc = "constructed"
    /\ call # NoCall
    /\ call' = NoCall
    /\ result' = EmptyDict
    /\ view' = "none"
    /\ UNCHANGED <<pc, cls, args, self, raised, threads, frames>>

GetAssetValues == Getter("get_asset_values", "assets")

GetCopyingFixedCostsValues == Getter("get_copying_fixed_costs_values", "copying_fixed_costs")

GetPayoffs == Getter("get_payoffs", "payoffs")

\* the dictionary the caller's reference denotes
Returned ==
    CASE view = "assets" -> self.assets
      [] view = "copying_fixed_costs" -> self.copying_fixed_costs
      [] view = "payoffs" -> self.payoffs
      [] OTHER -> EmptyDict

Next ==
    \/ NewBaseModel
    \/ NewBargainingPowerModel
    \/ NewUnobservableModel
    \/ NewAcquisitionModel
    \/ GetOptimalChoice
    \/ Call
    \/ GetAssetValues
    \/ GetCopyingFixedCostsValues
    \/ GetPayoffs
    \/ Release

Spec == Init /\ [][Next]_vars

(***************************************************************************)
(* Callers that write.  A getter hands out the object's own dictionary     *)
(* (return self._assets, and likewise for the other two tables), so an     *)
(* item assignment by the caller, d[k] = v, or d[cfg][k] = v for the       *)
(* nested payoff table, lands in the object.                               *)
(***************************************************************************)
\* what the constructor of class c yields from the arguments a
init(c, a) ==
    CASE c = "BaseModel" ->
            BaseModel_init(c, NewObject, a.u, a.B, a.small_delta, a.delta, a.K)
      [] c = "BargainingPowerModel" ->
            BargainingPowerModel_init(c, NewObject, a.u, a.B, a.small_delta, a.delta, a.K, a.beta)
      [] c = "UnobservableModel" ->
            UnobservableModel_init(c, NewObject, a.u, a.B, a.small_delta, a.delta, a.K, a.beta)
      [] c = "AcquisitionModel" ->
            AcquisitionModel_init(c, NewObject, a.u, a.B, a.small_delta, a.delta, a.K, a.beta)

\* the value written is the old one moved by WriteShift / One
WriteShift == 2

\* the items the caller assigns to: one threshold of either table that
\* get_optimal_choice reads, and one cell of the payoff table
WrittenKeys == {"A-s", "F(YY)s"}
WrittenCells == {<<"basic", "W">>}

\* d[k] = v on the dictionary the caller's reference denotes
setitem(o, table, k, v) ==
    CASE table = "assets" -> [o EXCEPT !.assets[k] = v]
      [] table = "copying_fixed_costs" -> [o EXCEPT !.copying_fixed_costs[k] = v]

\* d[cfg][k] = v on the payoff table
setitem_nested(o, cfg, k, v) == [o EXCEPT !.payoffs[cfg][k] = v]

\* the caller writes once through the reference it holds (the guard on the
\* untouched object bounds the number of writes per object)
CallerWrite ==
    /\ pc = "constructed"
    /\ view # "none"
    /\ self = init(cls, args).self
    /\ IF view = "payoffs"
       THEN \E cell \in WrittenCells :
                self' = setitem_nested(self, cell[1], cell[2],
                                       Returned[cell[1]][cell[2]] + WriteShift)
       ELSE \E k \in WrittenKeys \cap DOMAIN Returned :
                self' = setitem(self, view, k, Returned[k] + WriteShift)
    /\ UNCHANGED <<pc, cls, args, raised, call, result, view, threads, frames>>

NextCallerWrites ==
    \/ NewBaseModel
    \/ NewBargainingPowerModel
    \/ NewUnobservableModel
    \/ NewAcquisitionModel
    \/ GetOptimalChoice
    \/ Call
    \/ GetAssetValues
    \/ GetCopyingFixedCostsValues
    \/ GetPayoffs
    \/ Release
    \/ CallerWrite

SpecCallerWrites == Init /\ [][NextCallerWrites]_vars

(***************************************************************************)
(* get_optimal_choice statement by statement, for threads that call it on  *)
(* one shared object.  A position L<n> stands before line n of Models.py.  *)
(* One statement is one step; the tables a statement reads are written by  *)
(* no step, so the reads of one statement need no finer grain.  A step     *)
(* yields the thread's next state and the dictionary its local name result *)
(* denotes afterwards.                                                     *)
(***************************************************************************)
\* mutation: every call keeps its result in one dictionary shared by all threads
ResultSlot_shared(t) == 1

\* result is a local name of the call: each call has a dictionary of its own
ResultSlot(t) == t

goto(th, res, l) == [thread |-> [th EXCEPT !.pc = l], result |-> res]

\* return result: the frame is left, the caller holds the dictionary
return(th, res) == [thread |-> [th EXCEPT !.pc = "returned", !.ret = res], result |-> EmptyDict]

\* BaseModel.get_optimal_choice, lines 218-234
BaseModel_get_optimal_choice_step(c, o, th, res) ==
    CASE th.pc = "L218" ->
            goto(th, [k \in {"entrant", "incumbent", "development"} |-> ""], "L219")
      [] th.pc = "L219" ->
            goto(th, res, IF BaseModel_kill_zone_condition(o, th.A, th.F) THEN "L220" ELSE "L223")
      [] th.pc = "L220" -> goto(th, update(res, "entrant", ENTRANT_CHOICES["complement"]), "L221")
      [] th.pc = "L221" -> goto(th, update(res, "incumbent", INCUMBENT_CHOICES["refrain"]), "L222")
      [] th.pc = "L222" -> goto(th, update(res, "development", DEVELOPMENT_OUTCOME["success"]), "L234")
      [] th.pc = "L223" ->
            goto(th, res, IF BaseModel_indifferent_condition(o, th.A, th.F) THEN "L224" ELSE "L228")
      [] th.pc = "L224" -> goto(th, update(res, "entrant", ENTRANT_CHOICES["indifferent"]), "L225")
      [] th.pc = "L225" -> goto(th, update(res, "incumbent", INCUMBENT_CHOICES["copy"]), "L226")
      [] th.pc = "L226" -> goto(th, update(res, "development", DEVELOPMENT_OUTCOME["failure"]), "L234")
      [] th.pc = "L228" -> goto(th, update(res, "entrant", ENTRANT_CHOICES["substitute"]), "L229")
      [] th.pc = "L229" -> goto(th, update(res, "development", DEVELOPMENT_OUTCOME["success"]), "L230")
      [] th.pc = "L230" ->
            goto(th, res, IF BaseModel_copy_condition(o, th.F) THEN "L231" ELSE "L233")
      [] th.pc = "L231" -> goto(th, update(res, "incumbent", INCUMBENT_CHOICES["copy"]), "L234")
      [] th.pc = "L233" -> goto(th, update(res, "incumbent", INCUMBENT_CHOICES["refrain"]), "L234")
      [] th.pc = "L234" ->
            \* return result: to the caller, or to line 1158 of the override that called super()
            IF c = "UnobservableModel" THEN goto(th, res, "L1160") ELSE return(th, res)

\* UnobservableModel.get_optimal_choice, lines 1158-1163
UnobservableModel_get_optimal_choice_step(c, o, th, res) ==
    CASE th.pc = "L1158" -> goto(th, res, "L218")
      [] th.pc = "L1160" ->
            goto(th, res, IF res["entrant"] = ENTRANT_CHOICES["complement"] THEN "L1161" ELSE "L1163")
      [] th.pc = "L1161" ->
            goto(th, [k \in {"entrant", "incumbent", "development"} |->
                        CASE k = "entrant" -> ENTRANT_CHOICES["substitute"]
                          [] k = "incumbent" -> INCUMBENT_CHOICES["copy"]
                          [] k = "development" -> DEVELOPMENT_OUTCOME["failure"]],
                 "L1163")
      [] th.pc = "L1163" -> return(th, res)
      [] OTHER -> BaseModel_get_optimal_choice_step(c, o, th, res)

\* AcquisitionModel.get_optimal_choice, lines 1248-1272
AcquisitionModel_get_optimal_choice_step(c, o, th, res) ==
    CASE th.pc = "L1248" ->
            goto(th, [k \in {"entrant", "incumbent", "development", "acquisition"} |-> ""], "L1249")
      [] th.pc = "L1249" ->
            goto(th, res, IF AcquisitionModel_kill_zone_condition(o, th.A, th.F)
                          THEN "L1250" ELSE "L1254")
      [] th.pc = "L1250" -> goto(th, update(res, "entrant", ENTRANT_CHOICES["complement"]), "L1251")
      [] th.pc = "L1251" -> goto(th, update(res, "incumbent", INCUMBENT_CHOICES["refrain"]), "L1252")
      [] th.pc = "L1252" -> goto(th, update(res, "development", DEVELOPMENT_OUTCOME["success"]), "L1253")
      [] th.pc = "L1253" -> goto(th, update(res, "acquisition", ACQUISITION_OUTCOME["apart"]), "L1272")
      [] th.pc = "L1254" ->
            goto(th, res, IF AcquisitionModel_area_one_condition(o, th.A, th.F)
                          THEN "L1256" ELSE "L1265")
      [] th.pc = "L1256" ->
            \* lines 1256-1259: the local name entrant_choice_area_1 is bound
            goto([th EXCEPT !.entrant_choice_area_1 = AcquisitionModel_entrant_choice_area_1(o)],
                 res, "L1260")
      [] th.pc = "L1260" ->
            goto(th, update(res, "entrant", ENTRANT_CHOICES[th.entrant_choice_area_1]), "L1261")
      [] th.pc = "L1261" -> goto(th, update(res, "incumbent", INCUMBENT_CHOICES["copy"]), "L1262")
      [] th.pc = "L1262" -> goto(th, update(res, "development", DEVELOPMENT_OUTCOME["success"]), "L1263")
      [] th.pc = "L1263" -> goto(th, update(res, "acquisition", ACQUISITION_OUTCOME["merged"]), "L1272")
      [] th.pc = "L1265" -> goto(th, update(res, "entrant", ENTRANT_CHOICES["substitute"]), "L1266")
      [] th.pc = "L1266" -> goto(th, update(res, "development", DEVELOPMENT_OUTCOME["success"]), "L1267")
      [] th.pc = "L1267" -> goto(th, update(res, "acquisition", ACQUISITION_OUTCOME["merged"]), "L1268")
      [] th.pc = "L1268" ->
            goto(th, res, IF AcquisitionModel_copy_condition(o, th.F) THEN "L1269" ELSE "L1271")
      [] th.pc = "L1269" -> goto(th, update(res, "incumbent", INCUMBENT_CHOICES["copy"]), "L1272")
      [] th.pc = "L1271" -> goto(th, update(res, "incumbent", INCUMBENT_CHOICES["refrain"]), "L1272")
      [] th.pc = "L1272" -> return(th, res)

\* the next statement of the get_optimal_choice the object's class resolves to
get_optimal_choice_step(c, o, th, res) ==
    CASE c \in {"BaseModel", "BargainingPowerModel"} -> BaseModel_get_optimal_choice_step(c, o, th, res)
      [] c = "UnobservableModel" -> UnobservableModel_get_optimal_choice_step(c, o, th, res)
      [] c = "AcquisitionModel" -> AcquisitionModel_get_optimal_choice_step(c, o, th, res)

\* first statement of the method the call enters
get_optimal_choice_entry(c) ==
    CASE c \in {"BaseModel", "BargainingPowerModel"} -> "L218"
      [] c = "UnobservableModel" -> "L1158"
      [] c = "AcquisitionModel" -> "L1248"

\* the arguments of the objects the threads share: one accepted set, with
\* beta near 1 so that the AcquisitionModel accepts it as well
SharedArgs ==
    {[u |-> Grid(3), B |-> Grid(1), small_delta |-> Grid(2), delta |-> Grid(2),
      K |-> Grid(k), beta |-> Grid(Scale - 1)] : k \in {-1, 0}}

\* the points the threads ask for: on either side of A-s, and below, on and
\* above the kill zone of the class
ThreadPointsA(o) == {o.assets["A-s"] - MaxOffset, o.assets["A-s"]}

ThreadPointsF(c, o) ==
    IF c = "AcquisitionModel"
    THEN {o.copying_fixed_costs["F(ACQ)c"] - MaxOffset, o.copying_fixed_costs["F(ACQ)c"],
          o.copying_fixed_costs["F(ACQ)s"] + MaxOffset}
    ELSE {o.copying_fixed_costs["F(YN)c"] - MaxOffset, o.copying_fixed_costs["F(YN)c"],
          o.copying_fixed_costs["F(YN)s"] + MaxOffset}

\* the object the threads share is constructed
NewSharedModel ==
    /\ pc = "new"
    /\ \E c \in Classes, a \in SharedArgs : Constructed(c, a, init(c, a))

\* thread t calls get_optimal_choice(A, F)
ThreadCall(t) ==
    /\ pc = "constructed"
    /\ threads[t].pc = "idle"
    /\ \E A \in ThreadPointsA(self), F \in ThreadPointsF(cls, self) :
          threads' = [threads EXCEPT ![t] = [IdleThread EXCEPT
                          !.pc = get_optimal_choice_entry(cls), !.A = A, !.F = F]]
    /\ UNCHANGED <<pc, cls, args, self, raised, call, result, view, frames>>

\* thread t executes its next statement
ThreadStep(t) ==
    /\ pc = "constructed"
    /\ threads[t].pc \notin {"idle", "returned"}
    /\ LET s == get_optimal_choice_step(cls, self, threads[t], frames[ResultSlot(t)])
       IN  /\ threads' = [threads EXCEPT ![t] = s.thread]
           /\ frames' = [frames EXCEPT ![ResultSlot(t)] = s.result]
    /\ UNCHANGED <<pc, cls, args, self, raised, call, result, view>>

\* thread t drops the dictionary the call returned
ThreadRelease(t) ==
    /\ pc = "constructed"
    /\ threads[t].pc = "returned"
    /\ threads' = [threads EXCEPT ![t] = IdleThread]
    /\ UNCHANGED <<pc, cls, args, self, raised, call, result, view, frames>>

NextConcurrent ==
    \/ NewSharedModel
    \/ \E t \in Threads : ThreadCall(t)
    \/ \E t \in Threads : ThreadStep(t)
    \/ \E t \in Threads : ThreadRelease(t)

SpecConcurrent == Init /\ [][NextConcurrent]_vars

(***************************************************************************)
(* Rounded arithmetic.  The definitions above compute every formula over   *)
(* the reals.  Python evaluates them in binary floating point, rounding    *)
(* the result of every operation to the nearest representable number       *)
(* (ties to the even significand).  The definitions below repeat the       *)
(* tables of BaseModel and BargainingPowerModel with that rounding, on a   *)
(* format of MantissaBits significant bits whose least unit is 1 / One.    *)
(***************************************************************************)
MantissaBits == 3

\* exponents of the unit in the last place that can occur
Exponents == 1 .. 12

\* n / d rounded to the nearest representable number, d > 0
RoundRatio(n, d) ==
    LET a == Abs(n)
        k == Cardinality({j \in Exponents : 2^(j + MantissaBits - 1) * d <= a})
        q == 2^k
        m == a \div (d * q)
        r == a - m * d * q
        up == (2 * r > d * q) \/ (2 * r = d * q /\ m % 2 = 1)
        mag == (IF up THEN m + 1 ELSE m) * q
    IN  IF n < 0 THEN -mag ELSE mag

fadd(x, y) == RoundRatio(x + y, 1)                  \* x + y
fsub(x, y) == RoundRatio(x - y, 1)                  \* x - y
fmul(x, y) == RoundRatio(x * y, One)                \* x * y
fdiv(x, y) ==                                       \* x / y
    IF y > 0 THEN RoundRatio(x * One, y) ELSE RoundRatio(-(x * One), -y)

\* BaseModel._calculate_payoffs, lines 88-117
BaseModel_calculate_payoffs_rounded(o) ==
    [cfg \in PayoffConfigs |->
        CASE cfg = "basic" ->
                [k \in PayoffKeys |->
                    CASE k = "pi(I)" -> fadd(o.u, fdiv(o.small_delta, Num(2)))
                      [] k = "pi(E)" -> fdiv(o.small_delta, Num(2))
                      [] k = "CS" -> 0
                      [] k = "W" -> fadd(o.u, o.small_delta)]
          [] cfg = "I(C)" ->
                [k \in PayoffKeys |->
                    CASE k = "pi(I)" -> fadd(o.u, o.small_delta)
                      [] k = "pi(E)" -> 0
                      [] k = "CS" -> 0
                      [] k = "W" -> fadd(o.u, o.small_delta)]
          [] cfg = "E(P)" ->
                [k \in PayoffKeys |->
                    CASE k = "pi(I)" -> 0
                      [] k = "pi(E)" -> fadd(o.delta, o.small_delta)
                      [] k = "CS" -> o.u
                      [] k = "W" -> fadd(fadd(o.u, o.delta), o.small_delta)]
          [] cfg = "I(C)E(P)" ->
                [k \in PayoffKeys |->
                    CASE k = "pi(I)" -> 0
                      [] k = "pi(E)" -> o.delta
                      [] k = "CS" -> fadd(o.u, o.small_delta)
                      [] k = "W" -> fadd(fadd(o.u, o.delta), o.small_delta)]
          [] cfg = "E(C)" ->
                [k \in PayoffKeys |->
                    CASE k = "pi(I)" -> fadd(o.u, o.small_delta)
                      [] k = "pi(E)" -> o.small_delta
                      [] k = "CS" -> 0
                      [] k = "W" -> fadd(o.u, fmul(Num(2), o.small_delta))]
          [] cfg = "I(C)E(C)" ->
                [k \in PayoffKeys |->
                    CASE k = "pi(I)" -> fadd(o.u, fmul(fdiv(Num(3), Num(2)), o.small_delta))
                      [] k = "pi(E)" -> fdiv(o.small_delta, Num(2))
                      [] k = "CS" -> 0
                      [] k = "W" -> fadd(o.u, fmul(Num(2), o.small_delta))]]

\* BaseModel._calculate_copying_fixed_costs_values, lines 131-134
BaseModel_calculate_copying_fixed_costs_values_rounded(o) ==
    [k \in {"F(YY)s", "F(YN)s", "F(YY)c", "F(YN)c"} |->
        CASE k = "F(YY)s" -> fdiv(o.small_delta, Num(2))
          [] k = "F(YN)s" -> fadd(o.u, fdiv(fmul(o.small_delta, Num(3)), Num(2)))
          [] k = "F(YY)c" -> o.small_delta
          [] k = "F(YN)c" -> fdiv(o.small_delta, Num(2))]

\* BaseModel._calculate_asset_values, lines 147-150
BaseModel_calculate_asset_values_rounded(o) ==
    [k \in {"A_s", "A_c", "A-s", "A-c"} |->
        CASE k = "A_s" ->
                fsub(o.B, fsub(fadd(o.delta, fmul(fdiv(Num(3), Num(2)), o.small_delta)), o.K))
          [] k = "A_c" -> fsub(o.B, fsub(fmul(fdiv(Num(3), Num(2)), o.small_delta), o.K))
          [] k = "A-s" -> fsub(o.B, fsub(o.delta, o.K))
          [] k = "A-c" -> fsub(o.B, fsub(fmul(fdiv(Num(1), Num(2)), o.small_delta), o.K))]

\* BargainingPowerModel._calculate_payoffs, lines 958-970
BargainingPowerModel_calculate_payoffs_rounded(o) ==
    LET payoffs == BaseModel_calculate_payoffs_rounded(o)
    IN  [payoffs EXCEPT
            !["basic"]["pi(I)"] = fadd(o.u, fmul(o.small_delta, o.beta)),
            !["basic"]["pi(E)"] = fmul(o.small_delta, fsub(Num(1), o.beta)),
            !["E(C)"]["pi(I)"] = fadd(o.u, fmul(fmul(Num(2), o.small_delta), o.beta)),
            !["E(C)"]["pi(E)"] = fmul(fmul(Num(2), o.small_delta), fsub(Num(1), o.beta)),
            !["I(C)E(C)"]["pi(I)"] = fadd(o.u, fmul(o.small_delta, fadd(Num(1), o.beta))),
            !["I(C)E(C)"]["pi(E)"] = fmul(o.small_delta, fsub(Num(1), o.beta))]

\* BargainingPowerModel._calculate_copying_fixed_costs_values, lines 984-987
BargainingPowerModel_calculate_copying_fixed_costs_values_rounded(o) ==
    [k \in {"F(YY)s", "F(YN)s", "F(YY)c", "F(YN)c"} |->
        CASE k = "F(YY)s" -> fmul(o.small_delta, fsub(Num(1), o.beta))
          [] k = "F(YN)s" -> fadd(o.u, fmul(o.small_delta, fsub(Num(2), o.beta)))
          [] k = "F(YY)c" -> fmul(fmul(Num(2), o.small_delta), fsub(Num(1), o.beta))
          [] k = "F(YN)c" -> fmul(o.small_delta, fsub(Num(2), fmul(Num(3), o.beta)))]

\* BargainingPowerModel._calculate_asset_values, lines 1000-1003
BargainingPowerModel_calculate_asset_values_rounded(o) ==
    [k \in {"A_s", "A_c", "A-s", "A-c"} |->
        CASE k = "A_s" -> fsub(fsub(fadd(o.K, o.B), o.delta),
                               fmul(o.small_delta, fsub(Num(2), o.beta)))
          [] k = "A_c" -> fsub(fadd(o.K, o.B),
                               fmul(fmul(Num(3), o.small_delta), fsub(Num(1), o.beta)))
          [] k = "A-s" -> fsub(fadd(o.K, o.B), o.delta)
          [] k = "A-c" -> fsub(fadd(o.K, o.B), fmul(o.small_delta, fsub(Num(1), o.beta)))]

\* (A1b) and (A2) as the constructor evaluates them
A1b_rounded(small_delta, delta) ==
    /\ fdiv(small_delta, Num(2)) < delta
    /\ delta < fdiv(fmul(Num(3), small_delta), Num(2))

A2_rounded(small_delta, K) == K < fdiv(small_delta, Num(2))

\* BaseModel.__init__, lines 66-75, with the overrides of class c
BaseModel_init_rounded(c, o, u, B, small_delta, delta, K) ==
    LET o0 == IModel_init(o)
    IN  IF ~A1b_rounded(small_delta, delta)
        THEN [self |-> o0, raised |-> "(A1b) not satisfied."]
        ELSE IF ~A2_rounded(small_delta, K)
        THEN [self |-> o0, raised |-> "(A2) not satisfied."]
        ELSE
        LET o1 == setattrs([o0 EXCEPT !.u = u, !.B = B, !.small_delta = small_delta,
                                      !.delta = delta, !.K = K],
                           {"_u", "_B", "_small_delta", "_delta", "_K"})
            o3 == setattrs([o1 EXCEPT
                              !.copying_fixed_costs =
                                  IF c = "BaseModel"
                                  THEN BaseModel_calculate_copying_fixed_costs_values_rounded(o1)
                                  ELSE BargainingPowerModel_calculate_copying_fixed_costs_values_rounded(o1),
                              !.computed = @ \cup {"copying_fixed_costs"}],
                           {"_copying_fixed_costs"})
            o4 == setattrs([o3 EXCEPT
                              !.assets =
                                  IF c = "BaseModel"
                                  THEN BaseModel_calculate_asset_values_rounded(o3)
                                  ELSE BargainingPowerModel_calculate_asset_values_rounded(o3),
                              !.computed = @ \cup {"assets"}],
                           {"_assets"})
            o5 == setattrs([o4 EXCEPT
                              !.payoffs =
                                  IF c = "BaseModel"
                                  THEN BaseModel_calculate_payoffs_rounded(o4)
                                  ELSE BargainingPowerModel_calculate_payoffs_rounded(o4),
                              !.computed = @ \cup {"payoffs"}],
                           {"_payoffs"})
        IN  [self |-> o5, raised |-> ""]

\* BargainingPowerModel.__init__, lines 943-945
BargainingPowerModel_init_rounded(c, o, u, B, small_delta, delta, K, beta) ==
    IF ~ValidBeta(beta)
    THEN [self |-> o,
          raised |-> "Invalid bargaining power beta (has to be between 0 and 1)."]
    ELSE BaseModel_init_rounded(c, setattrs([o EXCEPT !.beta = beta], {"_beta"}),
                                u, B, small_delta, delta, K)

\* the arguments are floats: numbers of the grid that the format represents
Representable(S) == {x \in S : RoundRatio(x, 1) = x}

NewBaseModelRounded ==
    /\ pc = "new"
    /\ \E u \in Representable(ArgU), B \in Representable(ArgB),
          small_delta \in Representable(ArgSmallDelta), delta \in Representable(ArgDelta),
          K \in Representable(ArgK) :
        Constructed("BaseModel",
            [u |-> u, B |-> B, small_delta |-> small_delta, delta |-> delta, K |-> K, beta |-> 0],
            BaseModel_init_rounded("BaseModel", NewObject, u, B, small_delta, delta, K))

NewBargainingPowerModelRounded ==
    /\ pc = "new"
    /\ \E u \in Representable(ArgU), B \in Representable(ArgB),
          small_delta \in Representable(ArgSmallDelta), delta \in Representable(ArgDelta),
          K \in Representable(ArgK), beta \in Representable(ArgBeta) :
        Constructed("BargainingPowerModel",
            [u |-> u, B |-> B, small_delta |-> small_delta, delta |-> delta, K |-> K, beta |-> beta],
            BargainingPowerModel_init_rounded("BargainingPowerModel", NewObject,
                                              u, B, small_delta, delta, K, beta))

NextRounded ==
    \/ NewBaseModelRounded
    \/ NewBargainingPowerModelRounded
    \/ GetOptimalChoice
    \/ GetAssetValues
    \/ GetCopyingFixedCostsValues
    \/ GetPayoffs
    \/ Release

SpecRounded == Init /\ [][NextRounded]_vars

(***************************************************************************)
(* Numbers next to the grid.  TOLERANCE is far below the resolution 1/One  *)
(* of the numbers above, so among them the tolerance of an assertion       *)
(* admits equality only.  The definitions below compute with numbers       *)
(* g / One + e * EPSILON / One, where EPSILON = 10 ** (-11) is a tenth of  *)
(* TOLERANCE; such a number is the pair [g, e].  All e stay far below      *)
(* 1 / EPSILON, so the order of two numbers is the order of the pairs.     *)
(***************************************************************************)
\* TOLERANCE / EPSILON
EpsilonsPerTolerance == 10

\* the largest distance of beta from 1/2, in EPSILON
MaxPerturbation == 10

pnum(g) == [g |-> g, e |-> 0]
padd(x, y) == [g |-> x.g + y.g, e |-> x.e + y.e]                 \* x + y
psub(x, y) == [g |-> x.g - y.g, e |-> x.e - y.e]                 \* x - y
\* x * y; the product of the two e-parts is of the order EPSILON ** 2 and is
\* zero wherever the operator is used: only beta is off the grid, and every
\* formula of the classes is linear in beta
pmul(x, y) == [g |-> Mul(x.g, y.g), e |-> (x.g * y.e + x.e * y.g) \div One]
phalf(x) == [g |-> Div(x.g, Num(2)), e |-> x.e \div 2]           \* x / 2
plt(x, y) == x.g < y.g \/ (x.g = y.g /\ x.e < y.e)               \* x < y
ple(x, y) == ~plt(y, x)                                          \* x <= y
pabs(x) == IF plt(x, pnum(0)) THEN psub(pnum(0), x) ELSE x       \* abs(x)

\* x < TOLERANCE
pBelowTolerance(x) ==
    \/ plt(x, pnum(0))
    \/ x.g = 0 /\ x.e < EpsilonsPerTolerance * One

\* BargainingPowerModel._calculate_copying_fixed_costs_values, lines 984-987
BargainingPowerModel_calculate_copying_fixed_costs_values_near(o) ==
    [k \in {"F(YY)s", "F(YN)s", "F(YY)c", "F(YN)c"} |->
        CASE k = "F(YY)s" -> pmul(pnum(o.small_delta), psub(pnum(Num(1)), o.beta))
          [] k = "F(YN)s" -> padd(pnum(o.u),
                                  pmul(pnum(o.small_delta), psub(pnum(Num(2)), o.beta)))
          [] k = "F(YY)c" -> pmul(pmul(pnum(Num(2)), pnum(o.small_delta)),
                                  psub(pnum(Num(1)), o.beta))
          [] k = "F(YN)c" -> pmul(pnum(o.small_delta),
                                  psub(pnum(Num(2)), pmul(pnum(Num(3)), o.beta)))]

\* AcquisitionModel._calculate_copying_fixed_costs_values, lines 1195-1198
AcquisitionModel_calculate_copying_fixed_costs_values_near(o) ==
    updateAll(BargainingPowerModel_calculate_copying_fixed_costs_values_near(o),
        [k \in {"F(ACQ)s", "F(ACQ)c"} |->
            CASE k = "F(ACQ)s" -> padd(phalf(pnum(o.u + o.delta - o.K)),
                                       pmul(pnum(o.small_delta), psub(pnum(Num(2)), o.beta)))
              [] k = "F(ACQ)c" -> psub(pmul(pnum(o.small_delta),
                                            psub(pnum(Div(Num(5), Num(2))),
                                                 pmul(pnum(Num(3)), o.beta))),
                                       phalf(pnum(o.K)))])

\* lines 1199-1200: assert (abs(F(ACQ)c - F(YY)c) < TOLERANCE or F(ACQ)c < F(YY)c)
AcquisitionModel_thresholds_assertion_near(values) ==
    \/ pBelowTolerance(pabs(psub(values["F(ACQ)c"], values["F(YY)c"])))
    \/ plt(values["F(ACQ)c"], values["F(YY)c"])

\* BargainingPowerModel._calculate_asset_values, lines 1000-1003
BargainingPowerModel_calculate_asset_values_near(o) ==
    [k \in {"A_s", "A_c", "A-s", "A-c"} |->
        CASE k = "A_s" -> psub(pnum(o.K + o.B - o.delta),
                               pmul(pnum(o.small_delta), psub(pnum(Num(2)), o.beta)))
          [] k = "A_c" -> psub(pnum(o.K + o.B),
                               pmul(pmul(pnum(Num(3)), pnum(o.small_delta)),
                                    psub(pnum(Num(1)), o.beta)))
          [] k = "A-s" -> pnum(o.K + o.B - o.delta)
          [] k = "A-c" -> psub(pnum(o.K + o.B),
                               pmul(pnum(o.small_delta), psub(pnum(Num(1)), o.beta)))]

\* BargainingPowerModel._calculate_payoffs, lines 958-970; the rows of
\* BaseModel._calculate_payoffs do not use beta
BargainingPowerModel_calculate_payoffs_near(o) ==
    LET base == BaseModel_calculate_payoffs(o)
        payoffs == [cfg \in PayoffConfigs |-> [k \in PayoffKeys |-> pnum(base[cfg][k])]]
        small_delta == pnum(o.small_delta)
        rest == psub(pnum(Num(1)), o.beta)
    IN  [payoffs EXCEPT
            !["basic"]["pi(I)"] = padd(pnum(o.u), pmul(small_delta, o.beta)),
            !["basic"]["pi(E)"] = pmul(small_delta, rest),
            !["E(C)"]["pi(I)"] = padd(pnum(o.u), pmul(pmul(pnum(Num(2)), small_delta), o.beta)),
            !["E(C)"]["pi(E)"] = pmul(pmul(pnum(Num(2)), small_delta), rest),
            !["I(C)E(C)"]["pi(I)"] =
                padd(pnum(o.u), pmul(small_delta, padd(pnum(Num(1)), o.beta))),
            !["I(C)E(C)"]["pi(E)"] = pmul(small_delta, rest)]

\* AcquisitionModel.__init__ and the constructors it calls, beta next to the grid
AcquisitionModel_init_near(o, u, B, small_delta, delta, K, beta) ==
    IF ~NotTooDrastic(u, delta)
    THEN [self |-> o,
          raised |-> "Delta has to be smaller than u, meaning the innovation of the entrant is not too drastic."]
    ELSE IF ~(plt(pnum(Num(0)), beta) /\ plt(beta, pnum(Num(1))))
    THEN [self |-> o,
          raised |-> "Invalid bargaining power beta (has to be between 0 and 1)."]
    ELSE
    LET o0 == IModel_init(setattrs([o EXCEPT !.beta = beta], {"_beta"}))
    IN  IF ~A1b(small_delta, delta)
        THEN [self |-> o0, raised |-> "(A1b) not satisfied."]
        ELSE IF ~A2(small_delta, K)
        THEN [self |-> o0, raised |-> "(A2) not satisfied."]
        ELSE
        LET o1 == setattrs([o0 EXCEPT !.u = u, !.B = B, !.small_delta = small_delta,
                                      !.delta = delta, !.K = K],
                           {"_u", "_B", "_small_delta", "_delta", "_K"})
            values == AcquisitionModel_calculate_copying_fixed_costs_values_near(o1)
            o2 == [o1 EXCEPT !.computed = @ \cup {"copying_fixed_costs"}]
        IN  IF ~AcquisitionModel_thresholds_assertion_near(values)
            THEN [self |-> o2, raised |-> "F(ACQ)c has to be smaller or equal than F(YY)c"]
            ELSE
            LET o3 == setattrs([o2 EXCEPT !.copying_fixed_costs = values],
                               {"_copying_fixed_costs"})
                o4 == setattrs([o3 EXCEPT
                                  !.assets = BargainingPowerModel_calculate_asset_values_near(o3),
                                  !.computed = @ \cup {"assets"}],
                               {"_assets"})
                o5 == setattrs([o4 EXCEPT
                                  !.payoffs = BargainingPowerModel_calculate_payoffs_near(o4),
                                  !.computed = @ \cup {"payoffs"}],
                               {"_payoffs"})
            IN  [self |-> setattrs(o5, {"ACQUISITION_OUTCOME"}), raised |-> ""]

\* AcquisitionModel.get_optimal_choice, lines 1248-1272
AcquisitionModel_get_optimal_choice_near(o, A, F) ==
    LET result0 == [k \in {"entrant", "incumbent", "development", "acquisition"} |-> ""]
    IN  IF /\ ple(o.copying_fixed_costs["F(ACQ)c"], F)
           /\ ple(F, o.copying_fixed_costs["F(ACQ)s"])
           /\ plt(A, o.assets["A-s"])
        THEN update(update(update(update(result0,
                 "entrant", ENTRANT_CHOICES["complement"]),
                 "incumbent", INCUMBENT_CHOICES["refrain"]),
                 "development", DEVELOPMENT_OUTCOME["success"]),
                 "acquisition", ACQUISITION_OUTCOME["apart"])
        ELSE IF plt(F, o.copying_fixed_costs["F(ACQ)c"]) /\ plt(A, o.assets["A-s"])
        THEN LET entrant_choice_area_1 == AcquisitionModel_entrant_choice_area_1(o)
             IN  update(update(update(update(result0,
                     "entrant", ENTRANT_CHOICES[entrant_choice_area_1]),
                     "incumbent", INCUMBENT_CHOICES["copy"]),
                     "development", DEVELOPMENT_OUTCOME["success"]),
                     "acquisition", ACQUISITION_OUTCOME["merged"])
        ELSE LET result1 == update(update(update(result0,
                                "entrant", ENTRANT_CHOICES["substitute"]),
                                "development", DEVELOPMENT_OUTCOME["success"]),
                                "acquisition", ACQUISITION_OUTCOME["merged"])
             IN  IF ple(F, o.copying_fixed_costs["F(YY)c"])
                 THEN update(result1, "incumbent", INCUMBENT_CHOICES["copy"])
                 ELSE update(result1, "incumbent", INCUMBENT_CHOICES["refrain"])

\* beta = 0.5 - n * EPSILON
NearHalf == {[g |-> Div(Num(1), Num(2)), e |-> -(n * One)] : n \in (-1) .. MaxPerturbation}

\* offsets of a query point from a threshold: steps of the grid and of EPSILON / One
NearOffsets == {[g |-> dg, e |-> de] : dg \in Offsets, de \in Offsets}

\* AcquisitionModel(u, B, small_delta, delta, K, beta)
NewAcquisitionModelNearHalf ==
    /\ pc = "new"
    /\ \E u \in ArgU, B \in ArgB, small_delta \in ArgSmallDelta, delta \in ArgDelta, K \in ArgK,
          beta \in NearHalf :
        Constructed("AcquisitionModel",
            [u |-> u, B |-> B, small_delta |-> small_delta, delta |-> delta, K |-> K, beta |-> beta],
            AcquisitionModel_init_near(NewObject, u, B, small_delta, delta, K, beta))

\* choice = model.get_optimal_choice(A, F)
GetOptimalChoiceNearHalf ==
    /\ pc = "constructed"
    /\ call = NoCall
    /\ \E a \in DOMAIN self.assets, f \in DOMAIN self.copying_fixed_costs,
          dA \in NearOffsets, dF \in NearOffsets :
        LET A == padd(self.assets[a], dA)
            F == padd(self.copying_fixed_costs[f], dF)
        IN  /\ call' = [op |-> "get_optimal_choice", A |-> A, F |-> F]
            /\ result' = AcquisitionModel_get_optimal_choice_near(self, A, F)
    /\ view' = "none"
    /\ UNCHANGED <<pc, cls, args, self, raised, threads, frames>>

NextNearHalf ==
    \/ NewAcquisitionModelNearHalf
    \/ GetOptimalChoiceNearHalf
    \/ GetCopyingFixedCostsValues
    \/ Release

SpecNearHalf == Init /\ [][NextNearHalf]_vars

TypeOK ==
    /\ pc \in {"new", "constructed", "raised"}
    /\ cls \in Classes \cup {""}
    /\ (pc = "constructed") => (raised = "")
    /\ (pc = "raised") => (raised # "")
    /\ view \in {"none", "assets", "copying_fixed_costs", "payoffs"}


(***************************************************************************)
(* Vocabulary of the properties.                                           *)
(***************************************************************************)
\* the caller holds the result of get_optimal_choice(call.A, call.F)
Queried == pc = "constructed" /\ call.op = "get_optimal_choice"

\* the result is exactly the triple (entrant, incumbent, development), by name
IsOutcome(r, entrant, incumbent, development) ==
    /\ "entrant" \in DOMAIN r /\ r["entrant"] = ENTRANT_CHOICES[entrant]
    /\ "incumbent" \in DOMAIN r /\ r["incumbent"] = INCUMBENT_CHOICES[incumbent]
    /\ "development" \in DOMAIN r /\ r["development"] = DEVELOPMENT_OUTCOME[development]

\* thresholds of the constructed object, as its getters return them
AssetOf(k) == self.assets[k]
CostOf(k) == self.copying_fixed_costs[k]

\* BaseModel and BargainingPowerModel share BaseModel.get_optimal_choice unchanged
PlainClasses == {"BaseModel", "BargainingPowerModel"}

(***************************************************************************)
(* C1.  BaseModel and BargainingPowerModel: every point with A < A-s and   *)
(* F(YN)c <= F <= F(YN)s, both F-boundaries included, is the kill zone:    *)
(* entrant = complement, incumbent = refrain, development = success.       *)
(***************************************************************************)
C1_KillZone ==
    (/\ Queried
     /\ cls \in PlainClasses
     /\ call.A < AssetOf("A-s")
     /\ CostOf("F(YN)c") <= call.F
     /\ call.F <= CostOf("F(YN)s"))
    => IsOutcome(result, "complement", "refrain", "success")

\* a bargaining-power model queried on the lower boundary F == F(YN)c, which
\* differs from F(YY)s there, below A-s: the kill zone is returned
C1_Witness ==
    /\ Queried
    /\ cls = "BargainingPowerModel"
    /\ call.A < AssetOf("A-s")
    /\ call.F = CostOf("F(YN)c")
    /\ CostOf("F(YN)c") < CostOf("F(YN)s")
    /\ CostOf("F(YN)c") # CostOf("F(YY)s")
    /\ IsOutcome(result, "complement", "refrain", "success")

(***************************************************************************)
(* C2.  BaseModel and BargainingPowerModel: every point with A < A-s and   *)
(* F <= F(YN)c outside the kill zone, so every point with A < A-s and      *)
(* F < F(YN)c, is indifferent / copy / failure; no point with A >= A-s is. *)
(***************************************************************************)
C2_InKillZone ==
    /\ call.A < AssetOf("A-s")
    /\ CostOf("F(YN)c") <= call.F
    /\ call.F <= CostOf("F(YN)s")

C2_IndifferentCopy ==
    (Queried /\ cls \in PlainClasses) =>
        /\ (call.A < AssetOf("A-s") /\ call.F <= CostOf("F(YN)c") /\ ~C2_InKillZone)
              => IsOutcome(result, "indifferent", "copy", "failure")
        /\ (call.A < AssetOf("A-s") /\ call.F < CostOf("F(YN)c"))
              => IsOutcome(result, "indifferent", "copy", "failure")
        /\ (call.A >= AssetOf("A-s"))
              => ~IsOutcome(result, "indifferent", "copy", "failure")

C2_Witness ==
    /\ Queried
    /\ cls \in PlainClasses
    /\ call.A < AssetOf("A-s")
    /\ call.F < CostOf("F(YN)c")
    /\ IsOutcome(result, "indifferent", "copy", "failure")

(***************************************************************************)
(* C3.  BaseModel and BargainingPowerModel: every point with A >= A-s      *)
(* (A == A-s included) is substitute / success, with incumbent = copy      *)
(* exactly when F <= F(YY)s and refrain otherwise, wherever F lies         *)
(* relative to F(YN)c and F(YN)s.                                          *)
(***************************************************************************)
C3_SubstituteAboveAs ==
    (Queried /\ cls \in PlainClasses /\ call.A >= AssetOf("A-s")) =>
        IF call.F <= CostOf("F(YY)s")
        THEN IsOutcome(result, "substitute", "copy", "success")
        ELSE IsOutcome(result, "substitute", "refrain", "success")

\* A == A-s with F strictly between F(YN)c and F(YY)s: F(YY)s alone decides
C3_Witness ==
    /\ Queried
    /\ cls = "BargainingPowerModel"
    /\ call.A = AssetOf("A-s")
    /\ CostOf("F(YN)c") < call.F
    /\ call.F < CostOf("F(YY)s")
    /\ IsOutcome(result, "substitute", "copy", "success")

(***************************************************************************)
(* C4.  Every variant: get_optimal_choice is total.  Every queried point   *)
(* yields a result whose keys are entrant, incumbent, development (and     *)
(* acquisition for the AcquisitionModel only), each with a non-empty value *)
(* of its allowed set, and the result is the outcome of exactly one of the *)
(* regions of the point's class.                                           *)
(***************************************************************************)
C4_Keys ==
    IF cls = "AcquisitionModel"
    THEN {"entrant", "incumbent", "development", "acquisition"}
    ELSE {"entrant", "incumbent", "development"}

\* the regions of the decision, as conditions on the point and the thresholds,
\* each with the outcome documented for it
C4_Regions ==
    LET A == call.A
        F == call.F
        low == A < AssetOf("A-s")
    IN  IF cls = "AcquisitionModel"
        THEN {<<low /\ CostOf("F(ACQ)c") <= F /\ F <= CostOf("F(ACQ)s"),
                {"complement"}, "refrain", {"success"}>>,
              <<low /\ F < CostOf("F(ACQ)c"),
                {"complement", "substitute"}, "copy", {"success"}>>,
              <<(~low \/ F > CostOf("F(ACQ)s")) /\ F <= CostOf("F(YY)c"),
                {"substitute"}, "copy", {"success"}>>,
              <<(~low \/ F > CostOf("F(ACQ)s")) /\ F > CostOf("F(YY)c"),
                {"substitute"}, "refrain", {"success"}>>}
        ELSE {<<low /\ CostOf("F(YN)c") <= F /\ F <= CostOf("F(YN)s"),
                IF cls = "UnobservableModel" THEN {"substitute"} ELSE {"complement"},
                IF cls = "UnobservableModel" THEN "copy" ELSE "refrain",
                IF cls = "UnobservableModel" THEN {"failure"} ELSE {"success"}>>,
              <<low /\ F <= CostOf("F(YN)c") /\ ~(CostOf("F(YN)c") <= F /\ F <= CostOf("F(YN)s")),
                {"indifferent"}, "copy", {"failure"}>>,
              <<(~low \/ (F > CostOf("F(YN)s") /\ F > CostOf("F(YN)c")))
                    /\ F <= CostOf("F(YY)s"),
                {"substitute"}, "copy", {"success"}>>,
              <<(~low \/ (F > CostOf("F(YN)s") /\ F > CostOf("F(YN)c")))
                    /\ F > CostOf("F(YY)s"),
                {"substitute"}, "refrain", {"success"}>>}

C4_Total ==
    Queried =>
        /\ DOMAIN result = C4_Keys
        /\ result["entrant"] \in Values(ENTRANT_CHOICES)
        /\ result["incumbent"] \in Values(INCUMBENT_CHOICES)
        /\ result["development"] \in Values(DEVELOPMENT_OUTCOME)
        /\ (cls = "AcquisitionModel") => result["acquisition"] \in Values(ACQUISITION_OUTCOME)
        /\ Cardinality({r \in C4_Regions : r[1]}) = 1
        /\ \A r \in C4_Regions :
              r[1] => /\ \E e \in r[2] : result["entrant"] = ENTRANT_CHOICES[e]
                      /\ result["incumbent"] = INCUMBENT_CHOICES[r[3]]
                      /\ \E d \in r[4] : result["development"] = DEVELOPMENT_OUTCOME[d]

\* an AcquisitionModel queried below A-s and below F(ACQ)c: four non-empty fields
C4_Witness ==
    /\ Queried
    /\ cls = "AcquisitionModel"
    /\ call.A < AssetOf("A-s")
    /\ call.F < CostOf("F(ACQ)c")
    /\ DOMAIN result = {"entrant", "incumbent", "development", "acquisition"}
    /\ result["acquisition"] = ACQUISITION_OUTCOME["merged"]


(***************************************************************************)
(* Preconditions as the documentation states them, on the constructor's    *)
(* arguments (all in units of 1 / One; cleared of fractions).              *)
(***************************************************************************)
\* (A1b)  small_delta / 2 < delta < 3 * small_delta / 2
ArgsA1b == args.small_delta < 2 * args.delta /\ 2 * args.delta < 3 * args.small_delta

\* (A2)  K < small_delta / 2
ArgsA2 == 2 * args.K < args.small_delta

\* 0 < beta < 1
ArgsBetaInside == 0 < args.beta /\ args.beta < One

\* 2 * One^2 * F(ACQ)c,  F(ACQ)c = small_delta * (2.5 - 3 * beta) - K / 2
ArgsFACQc == args.small_delta * (5 * One - 6 * args.beta) - args.K * One

\* 2 * One^2 * F(YY)c,  F(YY)c = 2 * small_delta * (1 - beta)
ArgsFYYc == 4 * args.small_delta * (One - args.beta)

(***************************************************************************)
(* C5.  BaseModel construction succeeds if and only if (A1b) and (A2)      *)
(* hold, all inequalities strict; otherwise it raises.  The same two       *)
(* checks reject the same arguments in every subclass.                     *)
(***************************************************************************)
C5_BasePreconditions ==
    (pc # "new") =>
        /\ (cls = "BaseModel") => ((pc = "constructed") <=> (ArgsA1b /\ ArgsA2))
        /\ ~(ArgsA1b /\ ArgsA2) => (pc = "raised" /\ raised # "")

\* BaseModel(...) with delta == 3 * small_delta / 2 is rejected by (A1b)
C5_Witness ==
    /\ cls = "BaseModel"
    /\ pc = "raised"
    /\ 2 * args.delta = 3 * args.small_delta
    /\ ArgsA2
    /\ raised = "(A1b) not satisfied."

(***************************************************************************)
(* C6.  BargainingPowerModel, UnobservableModel, AcquisitionModel: with    *)
(* beta <= 0 or beta >= 1 the constructor raises before any threshold or   *)
(* payoff is computed; a beta strictly between 0 and 1 passes the check.   *)
(***************************************************************************)
C6_BetaMessage == "Invalid bargaining power beta (has to be between 0 and 1)."

C6_BetaRange ==
    (pc # "new" /\ cls \in BargainingClasses) =>
        /\ ~ArgsBetaInside =>
              /\ pc = "raised"
              /\ raised # ""
              /\ self.computed = {}
              /\ self.attrs \cap {"_copying_fixed_costs", "_assets", "_payoffs"} = {}
        /\ ArgsBetaInside => raised # C6_BetaMessage

\* UnobservableModel(beta=1) with otherwise valid arguments is rejected for its beta
C6_Witness ==
    /\ cls = "UnobservableModel"
    /\ pc = "raised"
    /\ args.beta = One
    /\ ArgsA1b /\ ArgsA2
    /\ raised = C6_BetaMessage
    /\ self.computed = {}

(***************************************************************************)
(* C7.  AcquisitionModel: the constructor raises whenever F(ACQ)c exceeds  *)
(* F(YY)c (on the grid of the model every excess is far above the          *)
(* tolerance 1e-10), the check passes whenever F(ACQ)c <= F(YY)c, and it   *)
(* is made during construction: every constructed AcquisitionModel has     *)
(* F(ACQ)c <= F(YY)c and no method call precedes the error.                *)
(***************************************************************************)
C7_ThresholdMessage == "F(ACQ)c has to be smaller or equal than F(YY)c"

C7_AcquisitionThresholds ==
    (pc # "new" /\ cls = "AcquisitionModel") =>
        /\ (ArgsFACQc > ArgsFYYc) => (pc = "raised" /\ raised # "")
        /\ (ArgsFACQc <= ArgsFYYc) => raised # C7_ThresholdMessage
        /\ (pc = "constructed") => CostOf("F(ACQ)c") <= CostOf("F(YY)c")
        /\ (pc = "raised") => (call = NoCall /\ "_copying_fixed_costs" \notin self.attrs)

\* AcquisitionModel with a beta below 1/2 that passes every other check
C7_Witness ==
    /\ cls = "AcquisitionModel"
    /\ pc = "raised"
    /\ raised = C7_ThresholdMessage
    /\ ArgsFACQc > ArgsFYYc
    /\ 2 * args.beta < One
    /\ self.computed = {"copying_fixed_costs"}

C9_WelfareIsSum ==
    (pc = "constructed" /\ call.op = "get_payoffs") =>
        /\ DOMAIN Returned = PayoffConfigs
        /\ \A cfg \in PayoffConfigs :
              Returned[cfg]["W"] = Returned[cfg]["pi(I)"] + Returned[cfg]["pi(E)"] + Returned[cfg]["CS"]

\* the payoffs of an UnobservableModel whose beta is not 1/2
C9_Witness ==
    /\ pc = "constructed"
    /\ call.op = "get_payoffs"
    /\ cls = "UnobservableModel"
    /\ 2 * args.beta # One
    /\ Returned["E(C)"]["W"] = Returned["E(C)"]["pi(I)"] + Returned["E(C)"]["pi(E)"]

(***************************************************************************)
(* C10.  The payoff table of the BargainingPowerModel differs from the     *)
(* table of the BaseModel with the same (u, B, small_delta, delta, K) only *)
(* in pi(I) and pi(E) of the rows basic, E(C) and I(C)E(C), and in each of *)
(* these rows pi(I) + pi(E) equals the base model's pi(I) + pi(E).         *)
(***************************************************************************)
C10_ChangedRows == {"basic", "E(C)", "I(C)E(C)"}

C10_Redistribution ==
    (pc = "constructed" /\ call.op = "get_payoffs" /\ cls = "BargainingPowerModel") =>
        LET base == BaseModel_calculate_payoffs(self)
        IN  /\ \A cfg \in PayoffConfigs, k \in PayoffKeys :
                  (Returned[cfg][k] # base[cfg][k])
                      => (cfg \in C10_ChangedRows /\ k \in {"pi(I)", "pi(E)"})
            /\ \A cfg \in C10_ChangedRows :
                  Returned[cfg]["pi(I)"] + Returned[cfg]["pi(E)"]
                      = base[cfg]["pi(I)"] + base[cfg]["pi(E)"]

\* a BargainingPowerModel whose beta moves profit in the row basic
C10_Witness ==
    /\ pc = "constructed"
    /\ call.op = "get_payoffs"
    /\ cls = "BargainingPowerModel"
    /\ Returned["basic"]["pi(I)"] # BaseModel_calculate_payoffs(self)["basic"]["pi(I)"]
    /\ Returned["basic"]["W"] = BaseModel_calculate_payoffs(self)["basic"]["W"]


(***************************************************************************)
(* C11.  UnobservableModel.get_optimal_choice equals the choice of the     *)
(* BargainingPowerModel with the same parameters at every point the        *)
(* latter does not classify as kill zone, and is substitute / copy /       *)
(* failure at every point it does (A < A-s and F(YN)c <= F <= F(YN)s);     *)
(* it never returns entrant = complement; thresholds and payoffs are those *)
(* of the bargaining-power model.                                          *)
(***************************************************************************)
C11_InKillZone ==
    /\ call.A < AssetOf("A-s")
    /\ CostOf("F(YN)c") <= call.F
    /\ call.F <= CostOf("F(YN)s")

C11_NoKillZone ==
    (pc = "constructed" /\ cls = "UnobservableModel") =>
        /\ self.copying_fixed_costs = BargainingPowerModel_calculate_copying_fixed_costs_values(self)
        /\ self.assets = BargainingPowerModel_calculate_asset_values(self)
        /\ self.payoffs = BargainingPowerModel_calculate_payoffs(self)
        /\ (call.op = "get_optimal_choice") =>
              LET bargaining == BaseModel_get_optimal_choice(self, call.A, call.F)
              IN  /\ IsOutcome(bargaining, "complement", "refrain", "success") <=> C11_InKillZone
                  /\ C11_InKillZone => /\ IsOutcome(result, "substitute", "copy", "failure")
                                       /\ DOMAIN result = {"entrant", "incumbent", "development"}
                  /\ ~C11_InKillZone => result = bargaining
                  /\ result["entrant"] # ENTRANT_CHOICES["complement"]

\* an UnobservableModel queried inside the kill zone of the bargaining-power model
C11_Witness ==
    /\ Queried
    /\ cls = "UnobservableModel"
    /\ C11_InKillZone
    /\ CostOf("F(YN)c") < call.F
    /\ IsOutcome(result, "substitute", "copy", "failure")


(***************************************************************************)
(* Vocabulary of the AcquisitionModel properties.                          *)
(***************************************************************************)
\* the result is exactly the quadruple, by name
IsAcquisitionOutcome(r, entrant, incumbent, development, acquisition) ==
    /\ DOMAIN r = {"entrant", "incumbent", "development", "acquisition"}
    /\ r["entrant"] = ENTRANT_CHOICES[entrant]
    /\ r["incumbent"] = INCUMBENT_CHOICES[incumbent]
    /\ r["development"] = DEVELOPMENT_OUTCOME[development]
    /\ r["acquisition"] = ACQUISITION_OUTCOME[acquisition]

AcquisitionQueried == Queried /\ cls = "AcquisitionModel"

(***************************************************************************)
(* C12.  AcquisitionModel: every point with A < A-s and                    *)
(* F(ACQ)c <= F <= F(ACQ)s, both boundaries included, is complement /      *)
(* refrain / success / apart, wherever F lies relative to F(YN)c, F(YN)s.  *)
(***************************************************************************)
C12_AcquisitionKillZone ==
    (/\ AcquisitionQueried
     /\ call.A < AssetOf("A-s")
     /\ CostOf("F(ACQ)c") <= call.F
     /\ call.F <= CostOf("F(ACQ)s"))
    => IsAcquisitionOutcome(result, "complement", "refrain", "success", "apart")

\* the upper boundary F == F(ACQ)s, below A-s
C12_Witness ==
    /\ AcquisitionQueried
    /\ call.A < AssetOf("A-s")
    /\ call.F = CostOf("F(ACQ)s")
    /\ CostOf("F(ACQ)s") # CostOf("F(YN)s")
    /\ IsAcquisitionOutcome(result, "complement", "refrain", "success", "apart")


(***************************************************************************)
(* C13.  AcquisitionModel: every point with A < A-s and F < F(ACQ)c        *)
(* (strictly) is copy / success / merged, with entrant = complement when   *)
(* delta < small_delta and entrant = substitute when delta >= small_delta; *)
(* the region never yields entrant = indifferent or development = failure. *)
(***************************************************************************)
C13_AreaOne ==
    (/\ AcquisitionQueried
     /\ call.A < AssetOf("A-s")
     /\ call.F < CostOf("F(ACQ)c"))
    => /\ IF args.delta < args.small_delta
          THEN IsAcquisitionOutcome(result, "complement", "copy", "success", "merged")
          ELSE IsAcquisitionOutcome(result, "substitute", "copy", "success", "merged")
       /\ result["entrant"] # ENTRANT_CHOICES["indifferent"]
       /\ result["development"] # DEVELOPMENT_OUTCOME["failure"]

\* small_delta above delta: the entrant develops the complement and is acquired
C13_Witness ==
    /\ AcquisitionQueried
    /\ call.A < AssetOf("A-s")
    /\ call.F < CostOf("F(ACQ)c")
    /\ args.delta < args.small_delta
    /\ IsAcquisitionOutcome(result, "complement", "copy", "success", "merged")


(***************************************************************************)
(* C14.  AcquisitionModel: every point with A >= A-s, and every point with *)
(* A < A-s and F > F(ACQ)s, is substitute / success / merged; the          *)
(* incumbent copies exactly when F <= F(YY)c (equality included) and       *)
(* refrains otherwise.                                                     *)
(***************************************************************************)
C14_OutsideKillZone ==
    \/ call.A >= AssetOf("A-s")
    \/ call.A < AssetOf("A-s") /\ call.F > CostOf("F(ACQ)s")

C14_SubstituteMerged ==
    (AcquisitionQueried /\ C14_OutsideKillZone)
    => IF call.F <= CostOf("F(YY)c")
       THEN IsAcquisitionOutcome(result, "substitute", "copy", "success", "merged")
       ELSE IsAcquisitionOutcome(result, "substitute", "refrain", "success", "merged")

\* on the boundary A == A-s, F == F(YY)c, above F(YY)s: the incumbent copies
C14_Witness ==
    /\ AcquisitionQueried
    /\ call.A = AssetOf("A-s")
    /\ call.F = CostOf("F(YY)c")
    /\ CostOf("F(YY)s") < call.F
    /\ IsAcquisitionOutcome(result, "substitute", "copy", "success", "merged")

\* below A-s and above F(ACQ)s: the incumbent refrains
C14_WitnessAbove ==
    /\ AcquisitionQueried
    /\ call.A < AssetOf("A-s")
    /\ call.F > CostOf("F(ACQ)s")
    /\ IsAcquisitionOutcome(result, "substitute", "refrain", "success", "merged")


(***************************************************************************)
(* C15.  The kill zone of the AcquisitionModel is a part of the kill zone  *)
(* without acquisition: for every accepted parameter set                   *)
(* F(YN)c <= F(ACQ)c and F(ACQ)s <= F(YN)s, and wherever the               *)
(* AcquisitionModel returns complement / refrain the BargainingPowerModel  *)
(* built from the same arguments returns complement / refrain too.         *)
(***************************************************************************)
\* BargainingPowerModel(u, B, small_delta, delta, K, beta) with the object's own arguments
BargainingOfArgs ==
    BargainingPowerModel_init("BargainingPowerModel", NewObject, args.u, args.B,
                              args.small_delta, args.delta, args.K, args.beta)

C15_ThresholdsNested ==
    /\ CostOf("F(YN)c") <= CostOf("F(ACQ)c")
    /\ CostOf("F(ACQ)s") <= CostOf("F(YN)s")

C15_PointInBothKillZones ==
    IsOutcome(result, "complement", "refrain", "success")
    => /\ BargainingOfArgs.raised = ""
       /\ IsOutcome(get_optimal_choice("BargainingPowerModel", BargainingOfArgs.self,
                                       call.A, call.F),
                    "complement", "refrain", "success")

C15_ReducedKillZone ==
    AcquisitionQueried => (C15_ThresholdsNested /\ C15_PointInBothKillZones)

\* the nesting does hold for the accepted parameter sets whose K is not negative
C15_ReducedKillZoneNonNegativeK ==
    (AcquisitionQueried /\ args.K >= 0) => (C15_ThresholdsNested /\ C15_PointInBothKillZones)

\* a kill-zone point of an AcquisitionModel with K >= 0, inside the bargaining kill zone
C15_WitnessNonNegativeK ==
    /\ AcquisitionQueried
    /\ args.K >= 0
    /\ IsAcquisitionOutcome(result, "complement", "refrain", "success", "apart")
    /\ CostOf("F(ACQ)s") < CostOf("F(YN)s")


(***************************************************************************)
(* C16.  BaseModel: get_asset_values returns exactly the keys A_s, A_c,    *)
(* A-s, A-c with A_s = B - (delta + 3 small_delta / 2 - K),                *)
(* A_c = B - (3 small_delta / 2 - K), A-s = B - (delta - K),               *)
(* A-c = B - (small_delta / 2 - K); get_copying_fixed_costs_values returns *)
(* exactly the keys F(YY)s = small_delta / 2, F(YN)s = u + 3 small_delta / 2, *)
(* F(YY)c = small_delta, F(YN)c = small_delta / 2.  Every equation is      *)
(* stated with both sides doubled.                                         *)
(***************************************************************************)
C16_Assets ==
    /\ DOMAIN Returned = {"A_s", "A_c", "A-s", "A-c"}
    /\ 2 * Returned["A_s"] = 2 * args.B - (2 * args.delta + 3 * args.small_delta - 2 * args.K)
    /\ 2 * Returned["A_c"] = 2 * args.B - (3 * args.small_delta - 2 * args.K)
    /\ 2 * Returned["A-s"] = 2 * args.B - (2 * args.delta - 2 * args.K)
    /\ 2 * Returned["A-c"] = 2 * args.B - (args.small_delta - 2 * args.K)

C16_Costs ==
    /\ DOMAIN Returned = {"F(YY)s", "F(YN)s", "F(YY)c", "F(YN)c"}
    /\ 2 * Returned["F(YY)s"] = args.small_delta
    /\ 2 * Returned["F(YN)s"] = 2 * args.u + 3 * args.small_delta
    /\ 2 * Returned["F(YY)c"] = 2 * args.small_delta
    /\ 2 * Returned["F(YN)c"] = args.small_delta

C16_BaseThresholds ==
    (pc = "constructed" /\ cls = "BaseModel") =>
        /\ (call.op = "get_asset_values") => C16_Assets
        /\ (call.op = "get_copying_fixed_costs_values") => C16_Costs

\* the cost thresholds of a BaseModel, F(YN)c below F(YY)c
C16_Witness ==
    /\ pc = "constructed"
    /\ cls = "BaseModel"
    /\ call.op = "get_copying_fixed_costs_values"
    /\ Returned["F(YN)c"] < Returned["F(YY)c"]
    /\ Returned["F(YY)c"] < Returned["F(YN)s"]

\* the asset thresholds of a BaseModel with K # 0: the four values are distinct
C16_WitnessAssets ==
    /\ pc = "constructed"
    /\ cls = "BaseModel"
    /\ call.op = "get_asset_values"
    /\ args.K # 0
    /\ Returned["A_s"] < Returned["A_c"]
    /\ Returned["A-s"] < Returned["A-c"]


(***************************************************************************)
(* C17.  BaseModel: get_payoffs returns exactly the six configurations,    *)
(* with (pi(I), pi(E), CS, W) equal to                                     *)
(*   basic     (u + d/2,  d/2,   0,     u + d)                             *)
(*   I(C)      (u + d,    0,     0,     u + d)                             *)
(*   E(P)      (0,        D + d, u,     u + D + d)                         *)
(*   I(C)E(P)  (0,        D,     u + d, u + D + d)                         *)
(*   E(C)      (u + d,    d,     0,     u + 2d)                            *)
(*   I(C)E(C)  (u + 3d/2, d/2,   0,     u + 2d)                            *)
(* where d = small_delta and D = delta.  Rows are compared doubled.        *)
(***************************************************************************)
C17_Row(cfg, pi_I, pi_E, CS, W) ==
    /\ DOMAIN Returned[cfg] = PayoffKeys
    /\ 2 * Returned[cfg]["pi(I)"] = pi_I
    /\ 2 * Returned[cfg]["pi(E)"] = pi_E
    /\ 2 * Returned[cfg]["CS"] = CS
    /\ 2 * Returned[cfg]["W"] = W

C17_BasePayoffs ==
    (pc = "constructed" /\ cls = "BaseModel" /\ call.op = "get_payoffs") =>
        LET u == args.u
            d == args.small_delta
            D == args.delta
        IN  /\ DOMAIN Returned = {"basic", "I(C)", "E(P)", "I(C)E(P)", "E(C)", "I(C)E(C)"}
            /\ C17_Row("basic", 2 * u + d, d, 0, 2 * u + 2 * d)
            /\ C17_Row("I(C)", 2 * u + 2 * d, 0, 0, 2 * u + 2 * d)
            /\ C17_Row("E(P)", 0, 2 * D + 2 * d, 2 * u, 2 * u + 2 * D + 2 * d)
            /\ C17_Row("I(C)E(P)", 0, 2 * D, 2 * u + 2 * d, 2 * u + 2 * D + 2 * d)
            /\ C17_Row("E(C)", 2 * u + 2 * d, 2 * d, 0, 2 * u + 4 * d)
            /\ C17_Row("I(C)E(C)", 2 * u + 3 * d, d, 0, 2 * u + 4 * d)

\* the payoffs of a BaseModel with u # 0 and delta # small_delta
C17_Witness ==
    /\ pc = "constructed"
    /\ cls = "BaseModel"
    /\ call.op = "get_payoffs"
    /\ args.u > 0
    /\ args.delta # args.small_delta
    /\ Returned["I(C)E(P)"]["CS"] > Returned["E(P)"]["CS"]
    /\ Returned["I(C)E(P)"]["pi(E)"] < Returned["E(P)"]["pi(E)"]


(***************************************************************************)
(* C18.  BargainingPowerModel: the thresholds are                          *)
(*   A_s = K + B - delta - small_delta (2 - beta),                         *)
(*   A_c = K + B - 3 small_delta (1 - beta),                               *)
(*   A-s = K + B - delta,                                                  *)
(*   A-c = K + B - small_delta (1 - beta),                                 *)
(*   F(YY)s = small_delta (1 - beta),  F(YN)s = u + small_delta (2 - beta),*)
(*   F(YY)c = 2 small_delta (1 - beta), F(YN)c = small_delta (2 - 3 beta). *)
(* Every equation is stated with both sides multiplied by One, so that the *)
(* products of two arguments need no division.                             *)
(***************************************************************************)
C18_Assets ==
    /\ One * AssetOf("A_s") = One * (args.K + args.B - args.delta)
                                - args.small_delta * (2 * One - args.beta)
    /\ One * AssetOf("A_c") = One * (args.K + args.B)
                                - 3 * args.small_delta * (One - args.beta)
    /\ One * AssetOf("A-s") = One * (args.K + args.B - args.delta)
    /\ One * AssetOf("A-c") = One * (args.K + args.B)
                                - args.small_delta * (One - args.beta)

C18_Costs ==
    /\ One * CostOf("F(YY)s") = args.small_delta * (One - args.beta)
    /\ One * CostOf("F(YN)s") = One * args.u + args.small_delta * (2 * One - args.beta)
    /\ One * CostOf("F(YY)c") = 2 * args.small_delta * (One - args.beta)
    /\ One * CostOf("F(YN)c") = args.small_delta * (2 * One - 3 * args.beta)

C19_Added == {"F(ACQ)s", "F(ACQ)c"}

C20_GetterCalled ==
    /\ pc = "constructed"
    /\ call.op = "get_copying_fixed_costs_values"
    /\ cls \in {"BargainingPowerModel", "AcquisitionModel"}

\* the three rows on which the documentation and the computation agree
C20_AgreedRows ==
    /\ 2 * One * Returned["F(YY)s"] = 2 * args.small_delta * (One - args.beta)
    /\ 2 * One * Returned["F(YN)s"]
          = 2 * One * args.u + 2 * args.small_delta * (2 * One - args.beta)
    /\ 2 * One * Returned["F(YY)c"] = 4 * args.small_delta * (One - args.beta)

C20_RowFACQs ==
    2 * One * Returned["F(ACQ)s"]
        = One * (args.u + args.delta - args.K) + 2 * args.small_delta * (2 * One - args.beta)

\* F(YN)c = d (2 - beta) and F(ACQ)c = K / 2 + d (2.5 - 3 beta), as documented
C20_DocumentedFYNc ==
    2 * One * Returned["F(YN)c"] = 2 * args.small_delta * (2 * One - args.beta)

C20_DocumentedFACQc ==
    2 * One * Returned["F(ACQ)c"]
        = One * args.K + args.small_delta * (5 * One - 6 * args.beta)

C21_ValidUtilityAndCost ==
    /\ (pc = "constructed") => (args.u > 0 /\ args.K >= 0)
    /\ (pc # "new" /\ (args.u <= 0 \/ args.K < 0)) => (pc = "raised" /\ raised # "")


(***************************************************************************)
(* C22.  BaseModel: for every accepted parameter set the asset thresholds  *)
(* are ordered A_s <= A_c <= A-c and A_s <= A-s.                           *)
(***************************************************************************)
C22_AssetOrdering ==
    (pc = "constructed" /\ cls = "BaseModel") =>
        /\ AssetOf("A_s") <= AssetOf("A_c")
        /\ AssetOf("A_c") <= AssetOf("A-c")
        /\ AssetOf("A_s") <= AssetOf("A-s")

\* a BaseModel with K # 0 returns its asset thresholds, strictly ordered
C22_Witness ==
    /\ pc = "constructed"
    /\ cls = "BaseModel"
    /\ call.op = "get_asset_values"
    /\ args.K # 0
    /\ Returned["A_s"] < Returned["A_c"]
    /\ Returned["A_c"] < Returned["A-c"]
    /\ Returned["A_s"] < Returned["A-s"]


(***************************************************************************)
(* C23.  A model's threshold and payoff tables are its own: a write by a   *)
(* caller to a mapping obtained from get_asset_values,                     *)
(* get_copying_fixed_costs_values or get_payoffs does not change what      *)
(* later getter calls or later get_optimal_choice calls return.  Between   *)
(* two calls the tables are those the constructor computed, and every      *)
(* choice returned is the one the constructed tables give.                 *)
(***************************************************************************)
\* the object as its constructor left it
ObjectOfArgs == init(cls, args).self

ChoiceReturned == pc = "constructed" /\ call.op \in {"get_optimal_choice", "__call__"}

C23_TablesOwned ==
    /\ (pc = "constructed" /\ call = NoCall) =>
          /\ self.assets = ObjectOfArgs.assets
          /\ self.copying_fixed_costs = ObjectOfArgs.copying_fixed_costs
          /\ self.payoffs = ObjectOfArgs.payoffs
    /\ ChoiceReturned => (result = get_optimal_choice(cls, ObjectOfArgs, call.A, call.F))


(***************************************************************************)
(* C24.  After construction, any sequence of calls to get_optimal_choice,  *)
(* __call__, get_asset_values, get_copying_fixed_costs_values and          *)
(* get_payoffs leaves the model's parameters, thresholds and payoffs       *)
(* unchanged: every getter returns the values computed at construction,    *)
(* get_optimal_choice stores nothing in the object, and model(A, F)        *)
(* returns what get_optimal_choice(A, F) returns.                          *)
(***************************************************************************)
C24_GetterReturnsConstructed ==
    (pc = "constructed" /\ view # "none") =>
        Returned = CASE view = "assets" -> ObjectOfArgs.assets
                     [] view = "copying_fixed_costs" -> ObjectOfArgs.copying_fixed_costs
                     [] view = "payoffs" -> ObjectOfArgs.payoffs

C24_CallIsGetOptimalChoice ==
    (pc = "constructed" /\ call.op = "__call__") =>
        result = get_optimal_choice(cls, self, call.A, call.F)

C24_ObjectKept ==
    (pc = "constructed") => (pc' = pc /\ cls' = cls /\ args' = args /\ self' = self)

C24_CallsArePure ==
    /\ [](C24_GetterReturnsConstructed /\ C24_CallIsGetOptimalChoice)
    /\ [][C24_ObjectKept]_vars

\* model(A, F) on an UnobservableModel inside the bargaining kill zone: the
\* override of the subclass answers, and the object is as constructed
C24_Witness ==
    /\ pc = "constructed"
    /\ cls = "UnobservableModel"
    /\ call.op = "__call__"
    /\ call.A < AssetOf("A-s")
    /\ CostOf("F(YN)c") <= call.F /\ call.F <= CostOf("F(YN)s")
    /\ IsOutcome(result, "substitute", "copy", "failure")
    /\ self = ObjectOfArgs


(***************************************************************************)
(* C25.  get_optimal_choice calls made concurrently on the same model      *)
(* instance, in any interleaving of their statements, each return exactly  *)
(* the result the same call returns when run alone: no call reads or       *)
(* writes another call's partially built result and none writes the shared *)
(* tables.                                                                 *)
(***************************************************************************)
C25_ReturnsAsAlone ==
    \A t \in Threads :
        (threads[t].pc = "returned") =>
            threads[t].ret = get_optimal_choice(cls, self, threads[t].A, threads[t].F)

C25_TablesNotWritten == (pc = "constructed") => (self' = self)

C25_Concurrent == []C25_ReturnsAsAlone /\ [][C25_TablesNotWritten]_vars

\* one call has returned the kill zone while another call, for a different
\* point, has its result half built
C25_Witness ==
    \E t1, t2 \in Threads :
        /\ t1 # t2
        /\ threads[t1].pc = "returned"
        /\ threads[t1].ret["entrant"] = ENTRANT_CHOICES["complement"]
        /\ threads[t2].pc \notin {"idle", "returned"}
        /\ threads[t2].F # threads[t1].F
        /\ DOMAIN frames[ResultSlot(t2)] # {}
        /\ frames[ResultSlot(t2)]["entrant"] = ENTRANT_CHOICES["substitute"]
        /\ frames[ResultSlot(t2)]["incumbent"] = ""


(***************************************************************************)
(* C26.  BaseModel and BargainingPowerModel: the substitute branch of      *)
(* get_optimal_choice is taken exactly for the points with A >= A-s or     *)
(* F > F(YN)s: no point with A < A-s and F <= F(YN)s returns               *)
(* entrant = substitute, and every point with A < A-s and F > F(YN)s       *)
(* returns substitute / success.                                           *)
(***************************************************************************)
C26_PlainQueried == Queried /\ cls \in PlainClasses

C26_NoSubstituteBelow ==
    (call.A < AssetOf("A-s") /\ call.F <= CostOf("F(YN)s"))
    => result["entrant"] # ENTRANT_CHOICES["substitute"]

C26_SubstituteAbove ==
    (call.A < AssetOf("A-s") /\ call.F > CostOf("F(YN)s"))
    => /\ result["entrant"] = ENTRANT_CHOICES["substitute"]
       /\ result["development"] = DEVELOPMENT_OUTCOME["success"]

C26_SubstituteBranch ==
    C26_PlainQueried => (C26_NoSubstituteBelow /\ C26_SubstituteAbove)

\* the same for the accepted parameter sets whose u is positive
C26_SubstituteBranchPositiveU ==
    (C26_PlainQueried /\ args.u > 0) => (C26_NoSubstituteBelow /\ C26_SubstituteAbove)

\* u > 0, A < A-s and F just above F(YN)s: the entrant develops the substitute
C26_WitnessPositiveU ==
    /\ C26_PlainQueried
    /\ args.u > 0
    /\ call.A < AssetOf("A-s")
    /\ call.F > CostOf("F(YN)s")
    /\ result["entrant"] = ENTRANT_CHOICES["substitute"]


(***************************************************************************)
(* C27.  BargainingPowerModel with beta = 1/2 is the BaseModel: for every  *)
(* parameter set (u, B, small_delta, delta, K) accepted by BaseModel,      *)
(* BargainingPowerModel(beta = 0.5) returns the same asset thresholds, the *)
(* same copying-cost thresholds, the same payoff table and the same        *)
(* get_optimal_choice result at every (A, F).                              *)
(***************************************************************************)
C27_BetaHalf == pc = "constructed" /\ cls = "BargainingPowerModel" /\ 2 * args.beta = One

\* over the reals: BaseModel(u, B, small_delta, delta, K) of the object's arguments
C27_Base == BaseModel_init("BaseModel", NewObject, args.u, args.B, args.small_delta,
                           args.delta, args.K)

\* in floating point
C27_BaseRounded == BaseModel_init_rounded("BaseModel", NewObject, args.u, args.B,
                                          args.small_delta, args.delta, args.K)

C27_SameAs(base) ==
    /\ base.raised = ""
    /\ self.assets = base.self.assets
    /\ self.copying_fixed_costs = base.self.copying_fixed_costs
    /\ self.payoffs = base.self.payoffs
    /\ Queried => (result = BaseModel_get_optimal_choice(base.self, call.A, call.F))

\* the claim, for the numbers Python computes
C27_BetaHalfIsBase == C27_BetaHalf => C27_SameAs(C27_BaseRounded)

\* the claim for the formulas over the reals
C27_BetaHalfIsBaseOverReals == C27_BetaHalf => C27_SameAs(C27_Base)

\* over the reals: a query of a BargainingPowerModel with beta = 1/2 in the kill zone
C27_WitnessOverReals ==
    /\ C27_BetaHalf
    /\ Queried
    /\ IsOutcome(result, "complement", "refrain", "success")
    /\ C27_SameAs(C27_Base)


\* a BargainingPowerModel with beta = 1/2 in floating point
C27_WitnessRounded == C27_BetaHalf /\ C27_BaseRounded.raised = "" /\ Queried

(***************************************************************************)
(* C9 in floating point.  For every accepted parameter set and each of the *)
(* six market configurations returned by get_payoffs, the comparison       *)
(* W == pi(I) + pi(E) + CS, evaluated as Python evaluates it, is true.     *)
(***************************************************************************)
C9_WelfareIsSumRounded ==
    (pc = "constructed" /\ call.op = "get_payoffs") =>
        \A cfg \in PayoffConfigs :
            Returned[cfg]["W"]
                = fadd(fadd(Returned[cfg]["pi(I)"], Returned[cfg]["pi(E)"]), Returned[cfg]["CS"])

(***************************************************************************)
(* C10 in floating point.  The payoff table of the BargainingPowerModel    *)
(* differs from the table BaseModel computes from the same parameters only *)
(* in pi(I) and pi(E) of the rows basic, E(C) and I(C)E(C), and in each of *)
(* these rows pi(I) + pi(E) == the base model's pi(I) + pi(E).             *)
(***************************************************************************)
C10_OnlyChangedRowsRounded ==
    (pc = "constructed" /\ call.op = "get_payoffs" /\ cls = "BargainingPowerModel") =>
        LET base == BaseModel_calculate_payoffs_rounded(self)
        IN  \A cfg \in PayoffConfigs, k \in PayoffKeys :
                (Returned[cfg][k] # base[cfg][k])
                    => (cfg \in C10_ChangedRows /\ k \in {"pi(I)", "pi(E)"})

C10_RedistributionRounded ==
    /\ C10_OnlyChangedRowsRounded
    /\ (pc = "constructed" /\ call.op = "get_payoffs" /\ cls = "BargainingPowerModel") =>
        LET base == BaseModel_calculate_payoffs_rounded(self)
        IN  \A cfg \in C10_ChangedRows :
                fadd(Returned[cfg]["pi(I)"], Returned[cfg]["pi(E)"])
                    = fadd(base[cfg]["pi(I)"], base[cfg]["pi(E)"])


(***************************************************************************)
(* C28.  In the BaseModel the incumbent's choice does not depend on the    *)
(* entrant's assets away from the tie F = F(YY)s: for any two points       *)
(* (A1, F) and (A2, F) with the same F # small_delta / 2,                  *)
(* get_optimal_choice returns the same incumbent value, namely copy when   *)
(* F < small_delta / 2 and refrain when F > small_delta / 2.               *)
(***************************************************************************)
C28_AwayFromTie == Queried /\ cls = "BaseModel" /\ 2 * call.F # self.small_delta

C28_IncumbentByCost ==
    result["incumbent"] = IF 2 * call.F < self.small_delta
                          THEN INCUMBENT_CHOICES["copy"]
                          ELSE INCUMBENT_CHOICES["refrain"]

C28_SameForEveryAsset ==
    \A other \in PointsA(self) :
        BaseModel_get_optimal_choice(self, other, call.F)["incumbent"] = result["incumbent"]

C28_IncumbentIgnoresAssets ==
    C28_AwayFromTie => (C28_IncumbentByCost /\ C28_SameForEveryAsset)

\* a point of the kill zone and a point at the same F above A-s, where the
\* entrant differs and the incumbent does not
C28_Witness ==
    /\ C28_AwayFromTie
    /\ call.A < AssetOf("A-s")
    /\ IsOutcome(result, "complement", "refrain", "success")
    /\ \E other \in PointsA(self) :
          /\ other >= AssetOf("A-s")
          /\ IsOutcome(BaseModel_get_optimal_choice(self, other, call.F),
                       "substitute", "refrain", "success")


(***************************************************************************)
(* C29.  Development fails only for entrants below the upper substitute    *)
(* asset threshold: in BaseModel, BargainingPowerModel and                 *)
(* UnobservableModel development = failure implies A < A-s, and            *)
(* AcquisitionModel never returns development = failure or                 *)
(* entrant = indifferent at any point.                                     *)
(***************************************************************************)
C29_FailureBelowThreshold ==
    (Queried /\ cls # "AcquisitionModel"
             /\ result["development"] = DEVELOPMENT_OUTCOME["failure"])
    => call.A < AssetOf("A-s")

C29_AcquisitionNeverFails ==
    AcquisitionQueried =>
        /\ result["development"] # DEVELOPMENT_OUTCOME["failure"]
        /\ result["entrant"] # ENTRANT_CHOICES["indifferent"]

C29_FailureOnlyBelow == C29_FailureBelowThreshold /\ C29_AcquisitionNeverFails

\* the failure the UnobservableModel puts in place of the kill zone, just below A-s
C29_Witness ==
    /\ Queried
    /\ cls = "UnobservableModel"
    /\ call.A = AssetOf("A-s") - 1
    /\ CostOf("F(YN)c") < call.F
    /\ IsOutcome(result, "substitute", "copy", "failure")


(***************************************************************************)
(* C30.  In every constructed AcquisitionModel the incumbent never copies  *)
(* above F(YY)c: for every point (A, F), incumbent = copy implies          *)
(* F <= F(YY)c and F > F(YY)c implies incumbent = refrain, including the   *)
(* points with A < A-s and F < F(ACQ)c where copying is returned without   *)
(* comparing F to F(YY)c.                                                  *)
(***************************************************************************)
\* the claim for parameters next to the grid
C30_NoCopyAbove ==
    AcquisitionQueried =>
        /\ (result["incumbent"] = INCUMBENT_CHOICES["copy"])
              => ple(call.F, CostOf("F(YY)c"))
        /\ plt(CostOf("F(YY)c"), call.F)
              => (result["incumbent"] = INCUMBENT_CHOICES["refrain"])

\* the claim for parameters of the grid, where the assertion of the
\* constructor admits no F(ACQ)c above F(YY)c
C30_NoCopyAboveOnGrid ==
    AcquisitionQueried =>
        /\ (result["incumbent"] = INCUMBENT_CHOICES["copy"])
              => (call.F <= CostOf("F(YY)c"))
        /\ (call.F > CostOf("F(YY)c"))
              => (result["incumbent"] = INCUMBENT_CHOICES["refrain"])

\* on the grid: a point of area one, where copying is returned without the comparison
C30_WitnessOnGrid ==
    /\ AcquisitionQueried
    /\ call.A < AssetOf("A-s")
    /\ call.F < CostOf("F(ACQ)c")
    /\ CostOf("F(ACQ)c") < CostOf("F(YY)c")
    /\ result["incumbent"] = INCUMBENT_CHOICES["copy"]

====
